---- MODULE Spec2Model ----
(***************************************************************************)
(* Reconciliation core of the Todoister plugin (src/src/main.ts, lines     *)
(* 1-804) and its content parser (src/src/lib/parse-content.ts).           *)
(*                                                                         *)
(* Text is modelled at token granularity: a document is a sequence of      *)
(* lines, a line is a sequence of tokens, and a column (EditorPosition.ch) *)
(* is a token index.  Line numbers are 1-based here (0-based in the        *)
(* source).  Time is counted in ticks of TickMs milliseconds; a timestamp  *)
(* is kept as the time elapsed since it was taken (Date.now() - stamp),    *)
(* saturated once it can no longer influence a comparison.                 *)
(***************************************************************************)
EXTENDS Integers, Sequences, FiniteSets, Bags, TLC

\* ------------------------------------------------------------------ bounds
MaxLines == 2        \* lines a document may grow to by user edits
MaxProv == 2         \* provisional ids minted in one behaviour
MaxDur == 1          \* durable ids issued by the remote store in one behaviour
MaxInflight == 2     \* mutations in flight at the same time
MaxAsync == 2        \* suspended file-path handlers at the same time
MaxEvents == 2       \* inputs from the user and from other clients in one behaviour
MaxParseLines == 3   \* lines of a document handed to parseContent alone
MaxCols == 3         \* characters of a line of the editor #replaceRange is called on
MaxText == 2         \* characters of the text #replaceRange puts in

\* --------------------------------------------------------------- constants
RECENT_LOCAL_EDIT_MS == 2000
EDITOR_CHANGE_MS == 1000
FILE_CHANGE_MS == 250
SELF_WRITE_MS == 500
TickMs == RECENT_LOCAL_EDIT_MS   \* granularity of time: one tick is one echo window

\* ------------------------------------------------------------------ tokens
ProvName == <<"P1", "P2", "P3", "P4", "P5", "P6">>
DurName == <<"D1", "D2", "D3", "D4">>
ProvIds == {ProvName[i] : i \in 1..Len(ProvName)}
DurIds == {DurName[i] : i \in 1..Len(DurName)}
SeedId == "D0"       \* a durable id already present in the document
RemoteIds == DurIds \cup {SeedId}
AllIds == ProvIds \cup RemoteIds
Contents == {"a", "b"}
NoId == "none"
Fence == "fence"   \* the three-backtick fence marker
NoData == [kind |-> "nodata"]
DeletedData == [kind |-> "deleted"]

isObsidianId(id) == id \in ProvIds

TaskData(c, k) == [kind |-> "task", content |-> c, checked |-> k]

\* ------------------------------------------------------------------- codec
\* markup -> task; NoId in the id field when the line carries no id token
obsidianTaskParse(s) ==
    IF /\ Len(s) >= 3
       /\ s[1] = "-"
       /\ s[2] \in {"[ ]", "[x]"}
       /\ s[3] \in Contents
       /\ Len(s) <= 4
       /\ (Len(s) = 4 => s[4] \in AllIds)
    THEN [ok |-> TRUE, content |-> s[3], checked |-> (s[2] = "[x]"),
          id |-> IF Len(s) = 4 THEN s[4] ELSE NoId]
    ELSE [ok |-> FALSE, content |-> "a", checked |-> FALSE, id |-> NoId]

\* task -> markup
obsidianTaskStringify(t) ==
    <<"-", IF t.checked THEN "[x]" ELSE "[ ]", t.content, t.id>>

tasksEquals(a, b) == a.content = b.content /\ a.checked = b.checked

\* ------------------------------------------------------------------ parser
IsBlank(tok) == tok = " "

RECURSIVE SkipBlank(_, _)
SkipBlank(line, i) ==
    IF i <= Len(line) /\ IsBlank(line[i]) THEN SkipBlank(line, i + 1) ELSE i

\* a fence test that forgets to trim the line
IsFenceLineUntrimmed(line) == Len(line) >= 1 /\ line[1] = Fence

\* the trimmed line starts with the fence marker
IsFenceLine(line) ==
    LET i == SkipBlank(line, 1) IN i <= Len(line) /\ line[i] = Fence

\* a prefix that stops at the first quote marker
RECURSIVE PrefixLenBlanks(_, _)
PrefixLenBlanks(line, i) ==
    IF i <= Len(line) /\ line[i] = " "
    THEN PrefixLenBlanks(line, i + 1) ELSE i - 1

\* length of the quote prefix plus indentation: leading blanks and quote markers
RECURSIVE PrefixLen(_, _)
PrefixLen(line, i) ==
    IF i <= Len(line) /\ line[i] \in {" ", ">"}
    THEN PrefixLen(line, i + 1) ELSE i - 1

\* a pattern that asks for the bullet only
MatchesListItem(line) ==
    LET p == PrefixLen(line, 1) IN
    /\ Len(line) >= p + 2
    /\ line[p + 1] \in {"-", "*", "+"}

\* a bullet and an opening bracket follow the prefix
MatchesTask(line) ==
    LET p == PrefixLen(line, 1) IN
    /\ Len(line) >= p + 2
    /\ line[p + 1] \in {"-", "*", "+"}
    /\ line[p + 2] \in {"[ ]", "[x]", "[?"}

\* a loop that gives up at the first line the decoder rejects
RECURSIVE ParseUntilFailure(_, _, _, _)
ParseUntilFailure(lines, i, inCodeBlock, next) ==
    IF i > Len(lines) THEN <<>>
    ELSE LET line == lines[i] IN
         IF IsFenceLine(line) THEN ParseUntilFailure(lines, i + 1, ~inCodeBlock, next)
         ELSE IF inCodeBlock \/ ~MatchesTask(line) THEN ParseUntilFailure(lines, i + 1, inCodeBlock, next)
         ELSE LET p == PrefixLen(line, 1)
                  r == obsidianTaskParse(SubSeq(line, p + 1, Len(line)))
              IN IF ~r.ok THEN <<>>
                 ELSE IF r.id = NoId
                 THEN <<[task |-> [id |-> ProvName[next + 1], content |-> r.content, checked |-> r.checked],
                         lineNumber |-> i, isNew |-> TRUE, from |-> p, to |-> Len(line)]>>
                      \o ParseUntilFailure(lines, i + 1, inCodeBlock, next + 1)
                 ELSE <<[task |-> [id |-> r.id, content |-> r.content, checked |-> r.checked],
                         lineNumber |-> i, isNew |-> FALSE, from |-> p, to |-> Len(line)]>>
                      \o ParseUntilFailure(lines, i + 1, inCodeBlock, next)

\* occurrences of lines i..Len(lines); the k-th occurrence without an id
\* token gets the provisional id ProvName[next + k]
RECURSIVE ParseFrom(_, _, _, _)
ParseFrom(lines, i, inCodeBlock, next) ==
    IF i > Len(lines) THEN <<>>
    ELSE LET line == lines[i] IN
         IF IsFenceLine(line) THEN ParseFrom(lines, i + 1, ~inCodeBlock, next)
         ELSE IF inCodeBlock \/ ~MatchesTask(line) THEN ParseFrom(lines, i + 1, inCodeBlock, next)
         ELSE LET p == PrefixLen(line, 1)
                  r == obsidianTaskParse(SubSeq(line, p + 1, Len(line)))
              IN IF ~r.ok THEN ParseFrom(lines, i + 1, inCodeBlock, next)
                 ELSE IF r.id = NoId
                 THEN <<[task |-> [id |-> ProvName[next + 1], content |-> r.content, checked |-> r.checked],
                         lineNumber |-> i, isNew |-> TRUE, from |-> p, to |-> Len(line)]>>
                      \o ParseFrom(lines, i + 1, inCodeBlock, next + 1)
                 ELSE <<[task |-> [id |-> r.id, content |-> r.content, checked |-> r.checked],
                         lineNumber |-> i, isNew |-> FALSE, from |-> p, to |-> Len(line)]>>
                      \o ParseFrom(lines, i + 1, inCodeBlock, next)

parseContent(lines, next) == ParseFrom(lines, 1, FALSE, next)

\* history of the same loop: the calls of obsidianTaskParse it makes, in the
\* order it makes them, each with the line it is made for and its argument
RECURSIVE DecoderCalls(_, _, _)
DecoderCalls(lines, i, inCodeBlock) ==
    IF i > Len(lines) THEN <<>>
    ELSE LET line == lines[i] IN
         IF IsFenceLine(line) THEN DecoderCalls(lines, i + 1, ~inCodeBlock)
         ELSE IF inCodeBlock \/ ~MatchesTask(line) THEN DecoderCalls(lines, i + 1, inCodeBlock)
         ELSE <<[line |-> i, arg |-> SubSeq(line, PrefixLen(line, 1) + 1, Len(line))]>>
              \o DecoderCalls(lines, i + 1, inCodeBlock)

\* ------------------------------------------------------------------- state
VARIABLES
    doc,            \* text of the active document (editor buffer and file)
    other,          \* text of the document that is not active
    otherEnabled,   \* frontmatter flag `todoister` of the document that is not active:
                    \* "on", "off", or "unopened" as long as it was never opened
    view,           \* "source" | "preview" | "none" (no live editor)
    enabled,        \* frontmatter flag `todoister` of the active file
    reqOk,          \* access token and project id are both set
    cache,          \* #activeFileCache : id -> entry
    queryData,      \* query client cache : id -> last known remote value
    liveObs,        \* id -> number of subscribed, not destroyed query observers
    remote,         \* the remote store : id -> task | deleted | nodata
    inflight,       \* mutations handed to the remote store, not yet settled
    nextPid,        \* provisional ids minted so far
    nextDur,        \* durable ids issued by the remote store so far
    contentTimer,   \* #processContentChangeTimeout : -1 or ticks left
    fileTimer,      \* #processFileChangeTimeout : -1 or ticks left
    selfWriting,    \* the active path is in #selfWritingPaths
    selfTimers,     \* ticks left of the pending 500 ms removals from #selfWritingPaths
    handlers,       \* suspended asynchronous handlers
    created,        \* history: provisional id -> create mutations issued for it
    pushedAt,       \* history: id -> ticks since a pass last pushed a local edit for it
    carried,        \* history: ids whose entry was in the cache when the active document changed, and still is
    want,           \* history: id -> the content and checked last pushed for it, while nothing else touched the task
    second,         \* history: what became of the last edit of the seed task by a second client
    cursor,         \* the editor's cursor: line (from 1) and characters before it on that line
    retryer,        \* the transport's retry state of one mutation (create-query-client.ts:29-32)
    oauth,          \* oauthState, oauthCallbackResolver, oauthCallbackRejector and the connects under way
    events,         \* history: inputs from the user and from other clients so far
    last            \* history: what the last handler did

vars == <<doc, other, otherEnabled, view, enabled, reqOk, cache, queryData, liveObs, remote, inflight,
          nextPid, nextDur, contentTimer, fileTimer, selfWriting, selfTimers,
          handlers, created, pushedAt, carried, want, second, cursor, retryer, oauth, events, last>>

Ticks(ms) == (ms + TickMs - 1) \div TickMs
EchoTicks == Ticks(RECENT_LOCAL_EDIT_MS)
NoStamp == -1
NoTimer == -1

\* a value that is not there, and whether JavaScript takes a value for true
Undefined == "undefined"
Truthy(v) == v # Undefined /\ v # ""

\* no connect was ever started (main.ts:83-89): promise and timers have one
\* place per call of #handleConnect, called is what the last handler invoked,
\* cleared the states that a mismatch has cleared
NoAttempt == 0
NoOauth == [oauthState |-> Undefined, resolver |-> NoAttempt, rejector |-> NoAttempt,
            promise |-> <<>>, timers |-> <<>>, called |-> "none", cleared |-> {}, callbacks |-> 0]

\* no mutation is under way in the transport
NoRetryer == [status |-> "idle", failureCount |-> 0, attempts |-> 0, wait |-> NoTimer, delays |-> <<>>]

\* the cursor at the start of the document
Home == [line |-> 1, ch |-> 0]

EmptyCache == [i \in {} |-> [kind |-> "todoist", lastLocalEditAt |-> NoStamp]]
TodoistEntry == [kind |-> "todoist", lastLocalEditAt |-> NoStamp]
ObsidianEntry == [kind |-> "obsidian", lastLocalEditAt |-> NoStamp]
isObsidianCacheItem(item) == item.kind = "obsidian"

\* gen (history): for a create, the number of the entry of that provisional id
\* that issued it; 0 for the other mutations
Mutation(k, id, c, ch) == [kind |-> k, id |-> id, content |-> c, checked |-> ch, gen |-> 0]

isReadingView(v) == v = "preview"
isEditingView(v) == v = "source"

\* ------------------------------------------------------- document helpers
\* editor.replaceRange(text, {line, ch: from}, {line, ch: to}) within one line
ReplaceSpan(lines, ln, from, to, toks) ==
    [lines EXCEPT ![ln] = SubSeq(@, 1, from) \o toks \o SubSeq(@, to + 1, Len(@))]

RemoveLine(lines, ln) == SubSeq(lines, 1, ln - 1) \o SubSeq(lines, ln + 1, Len(lines))

\* a write-back of ids that puts the encoded task on the line without its prefix
RECURSIVE WriteNewIdsNoPrefix(_, _, _)
WriteNewIdsNoPrefix(lines, occ, k) ==
    IF k > Len(occ) THEN lines
    ELSE IF occ[k].isNew
    THEN WriteNewIdsNoPrefix([lines EXCEPT ![occ[k].lineNumber] = obsidianTaskStringify(occ[k].task)],
                             occ, k + 1)
    ELSE WriteNewIdsNoPrefix(lines, occ, k + 1)

RECURSIVE WriteNewIds(_, _, _)
WriteNewIds(lines, occ, k) ==
    IF k > Len(occ) THEN lines
    ELSE IF occ[k].isNew
    THEN WriteNewIds(ReplaceSpan(lines, occ[k].lineNumber, occ[k].from, occ[k].to,
                                 obsidianTaskStringify(occ[k].task)), occ, k + 1)
    ELSE WriteNewIds(lines, occ, k + 1)

NewCount(occ) == Cardinality({k \in 1..Len(occ) : occ[k].isNew})
OccIds(occ) == {occ[k].task.id : k \in 1..Len(occ)}
OccTasks(occ) == [k \in 1..Len(occ) |-> occ[k].task]

\* ------------------------------------------------ #updateActiveFileCache
\* the mutate calls of main.ts:427-433, in the order they are made
PushMutations(todoistTask, task) ==
    (IF todoistTask.checked # task.checked
     THEN <<Mutation("check", task.id, task.content, task.checked)>> ELSE <<>>)
    \o (IF todoistTask.content # task.content
        THEN <<Mutation("content", task.id, task.content, task.checked)>> ELSE <<>>)

\* an iteration that stamps every remote-backed entry it looks at
UpdateStepStampAlways(st, task, allowPush) ==
    IF task.id \in DOMAIN st.cache
    THEN LET cacheItem == st.cache[task.id]
             todoistTask == st.qd[task.id]
         IN IF isObsidianCacheItem(cacheItem) THEN st
            ELSE IF todoistTask.kind # "task" THEN st
            ELSE IF allowPush /\ ~tasksEquals(todoistTask, task)
            THEN [st EXCEPT !.cache[task.id].lastLocalEditAt = 0,
                            !.muts = @ \o PushMutations(todoistTask, task)]
            ELSE [st EXCEPT !.cache[task.id].lastLocalEditAt = 0]
    ELSE IF isObsidianId(task.id)
    THEN [st EXCEPT !.cache = [i \in DOMAIN @ \cup {task.id} |-> IF i = task.id THEN ObsidianEntry ELSE @[i]],
                    !.muts = @ \o <<[Mutation("create", task.id, task.content, task.checked)
                                     EXCEPT !.gen = created[task.id] + 1]>>]
    ELSE [st EXCEPT !.cache = [i \in DOMAIN @ \cup {task.id} |-> IF i = task.id THEN TodoistEntry ELSE @[i]],
                    !.qd[task.id] = IF @.kind = "nodata" THEN TaskData(task.content, task.checked) ELSE @,
                    !.obs[task.id] = @ + 1]

\* One iteration of the first loop (main.ts:405-439) on pass state st.
\* a first loop that pushes the parsed occurrence whatever the cached remote value is
UpdateStepPushDeleted(st, task, allowPush) ==
    IF task.id \in DOMAIN st.cache
    THEN LET cacheItem == st.cache[task.id]
             todoistTask == st.qd[task.id]
         IN IF isObsidianCacheItem(cacheItem) THEN st
            ELSE IF todoistTask.kind # "task"
            THEN IF allowPush
                 THEN [st EXCEPT !.cache[task.id].lastLocalEditAt = 0,
                                 !.muts = @ \o <<Mutation("content", task.id, task.content, task.checked)>>]
                 ELSE st
            ELSE IF allowPush /\ ~tasksEquals(todoistTask, task)
            THEN LET willMutate == todoistTask.checked # task.checked \/ todoistTask.content # task.content
                 IN [st EXCEPT !.cache[task.id].lastLocalEditAt = IF willMutate THEN 0 ELSE @,
                               !.muts = @ \o PushMutations(todoistTask, task)]
            ELSE st
    ELSE IF isObsidianId(task.id)
    THEN [st EXCEPT !.cache = [i \in DOMAIN @ \cup {task.id} |-> IF i = task.id THEN ObsidianEntry ELSE @[i]],
                    !.muts = @ \o <<[Mutation("create", task.id, task.content, task.checked)
                                     EXCEPT !.gen = created[task.id] + 1]>>]
    ELSE [st EXCEPT !.cache = [i \in DOMAIN @ \cup {task.id} |-> IF i = task.id THEN TodoistEntry ELSE @[i]],
                    !.qd[task.id] = IF @.kind = "nodata" THEN TaskData(task.content, task.checked) ELSE @,
                    !.obs[task.id] = @ + 1]

UpdateStep(st, task, allowPush) ==
    IF task.id \in DOMAIN st.cache
    THEN LET cacheItem == st.cache[task.id]
             todoistTask == st.qd[task.id]
         IN IF isObsidianCacheItem(cacheItem) THEN st
            ELSE IF todoistTask.kind # "task" THEN st
            ELSE IF allowPush /\ ~tasksEquals(todoistTask, task)
            THEN LET willMutate == todoistTask.checked # task.checked \/ todoistTask.content # task.content
                 IN [st EXCEPT !.cache[task.id].lastLocalEditAt = IF willMutate THEN 0 ELSE @,
                               !.muts = @ \o PushMutations(todoistTask, task)]
            ELSE st
    ELSE IF isObsidianId(task.id)
    THEN \* #createObsidianCacheEntry: add.mutate(task) is issued at once
         [st EXCEPT !.cache = [i \in DOMAIN @ \cup {task.id} |-> IF i = task.id THEN ObsidianEntry ELSE @[i]],
                    !.muts = @ \o <<[Mutation("create", task.id, task.content, task.checked)
                                     EXCEPT !.gen = created[task.id] + 1]>>]
    ELSE \* #createTodoistCacheEntry: observer seeded with the parsed task, then subscribed
         [st EXCEPT !.cache = [i \in DOMAIN @ \cup {task.id} |-> IF i = task.id THEN TodoistEntry ELSE @[i]],
                    !.qd[task.id] = IF @.kind = "nodata" THEN TaskData(task.content, task.checked) ELSE @,
                    !.obs[task.id] = @ + 1]

RECURSIVE UpdateLoop(_, _, _, _)
UpdateLoop(st, occ, k, allowPush) ==
    IF k > Len(occ) THEN st
    ELSE UpdateLoop(UpdateStep(st, occ[k].task, allowPush), occ, k + 1, allowPush)

\* a removal that forgets query.destroy()
DeleteIdsKeepObservers(st, gone) ==
    [st EXCEPT !.cache = [i \in DOMAIN @ \ gone |-> @[i]]]

\* #deleteFromActiveFileCache for every id of the set gone
DeleteIds(st, gone) ==
    [st EXCEPT !.cache = [i \in DOMAIN @ \ gone |-> @[i]],
               !.obs = [i \in DOMAIN @ |->
                          IF i \in gone /\ i \in DOMAIN st.cache /\ ~isObsidianCacheItem(st.cache[i])
                          THEN @[i] - 1 ELSE @[i]]]

\* a second loop that tears nothing down
AbsentNone(st, occ) == {}

\* second loop (main.ts:441-445): tracked ids absent from the parse are torn down
Absent(st, occ) == DOMAIN st.cache \ OccIds(occ)

\* history of a pass: keys is the key set of the cache when the call returns,
\* pre the remote-backed ids and their cached remote values when it starts
updateActiveFileCache(st, occ, allowPush) ==
    LET s1 == UpdateLoop(st, occ, 1, allowPush)
        s2 == DeleteIds(s1, Absent(s1, occ))
    IN [s2 EXCEPT !.passes = @ + 1,
                  !.keys = DOMAIN s2.cache,
                  !.pre = [ids |-> {i \in DOMAIN st.cache : ~isObsidianCacheItem(st.cache[i])},
                           qd |-> st.qd]]

\* onMutate of the content-update and checked-toggle mutations: the optimistic
\* write into the query cache, run after the issuing handler has returned
RECURSIVE OnMutate(_, _, _)
OnMutate(qd, muts, k) ==
    IF k > Len(muts) THEN qd
    ELSE LET m == muts[k]
             q == IF m.kind = "content" /\ qd[m.id].kind = "task"
                  THEN [qd EXCEPT ![m.id].content = m.content]
                  ELSE IF m.kind = "check" /\ qd[m.id].kind = "task"
                  THEN [qd EXCEPT ![m.id].checked = m.checked]
                  ELSE qd
         IN OnMutate(q, muts, k + 1)

\* history of main.ts:425: the ids for which a pass has just set lastLocalEditAt
Stamped(at, muts) ==
    [i \in DOMAIN at |->
        IF \E k \in 1..Len(muts) : muts[k].id = i /\ muts[k].kind # "create" THEN 0 ELSE at[i]]

\* history of main.ts:427-433: the value each field of a task was last pushed to
NoWant == [content |-> "none", checked |-> "none"]
RECURSIVE Wanted(_, _, _)
Wanted(wt, muts, k) ==
    IF k > Len(muts) THEN wt
    ELSE LET m == muts[k]
             v == IF m.kind = "content" THEN [wt EXCEPT ![m.id].content = m.content]
                  ELSE IF m.kind = "check"
                  THEN [wt EXCEPT ![m.id].checked = IF m.checked THEN "yes" ELSE "no"]
                  ELSE wt
         IN Wanted(v, muts, k + 1)

RECURSIVE CountCreates(_, _, _)
CountCreates(cr, muts, k) ==
    IF k > Len(muts) THEN cr
    ELSE CountCreates(IF muts[k].kind = "create" THEN [cr EXCEPT ![muts[k].id] = @ + 1] ELSE cr,
                      muts, k + 1)

\* The state a handler works on, threaded through the calls it makes.
NoPre == [ids |-> {}, qd |-> [i \in RemoteIds |-> NoData]]

World ==
    [doc |-> doc, cache |-> cache, qd |-> queryData, obs |-> liveObs, muts |-> <<>>,
     pid |-> nextPid, ctimer |-> contentTimer, view |-> view, second |-> second,
     writes |-> 0, occ |-> <<>>, passes |-> 0, keys |-> {}, pre |-> NoPre]

\* #replaceRange (main.ts:576-592) on one line: the edit, then clearTimeout
replaceRange(w, ln, from, to, toks) ==
    [w EXCEPT !.doc = ReplaceSpan(@, ln, from, to, toks), !.ctimer = NoTimer, !.writes = @ + 1]

RECURSIVE ReplaceNew(_, _, _)
ReplaceNew(w, occ, k) ==
    IF k > Len(occ) THEN w
    ELSE IF occ[k].isNew
    THEN ReplaceNew(replaceRange(w, occ[k].lineNumber, occ[k].from, occ[k].to,
                                 obsidianTaskStringify(occ[k].task)), occ, k + 1)
    ELSE ReplaceNew(w, occ, k + 1)

\* #handleContentUpdate (main.ts:594-608), the editor path of a reconcile pass
handleContentUpdate(w) ==
    IF w.view = "none" THEN w
    ELSE LET occ == parseContent(w.doc, w.pid)
             w1 == ReplaceNew(w, occ, 1)
             w2 == [w1 EXCEPT !.pid = @ + NewCount(occ), !.occ = OccTasks(occ)]
         IN updateActiveFileCache(w2, occ, TRUE)

\* #clearActiveFileCache (main.ts:392-400)
clearActiveFileCache(w) == DeleteIds(w, DOMAIN w.cache)

SeqToBag(q) == [m \in {q[k] : k \in 1..Len(q)} |-> Cardinality({k \in 1..Len(q) : q[k] = m})]

Fits(w) == BagCardinality(inflight) + Len(w.muts) <= MaxInflight /\ w.pid <= MaxProv

\* what a handler that ends in world w leaves behind
Commit(w) ==
    /\ Fits(w)
    /\ doc' = w.doc
    /\ cache' = w.cache
    /\ queryData' = OnMutate(w.qd, w.muts, 1)
    /\ liveObs' = w.obs
    /\ inflight' = inflight (+) SeqToBag(w.muts)
    /\ created' = CountCreates(created, w.muts, 1)
    /\ pushedAt' = Stamped(pushedAt, w.muts)
    /\ carried' = carried \cap DOMAIN w.cache
    /\ want' = Wanted(want, w.muts, 1)
    /\ second' = w.second
    /\ nextPid' = w.pid
    /\ contentTimer' = w.ctimer

\* history: what a handler did. clean: the user did not edit the document while
\* the handler was suspended; fresh: the text a file write was computed from
\* was still the text of the document when the write landed
Last(op, id, arg, w, allowPush) ==
    [op |-> op, id |-> id, arg |-> arg, occ |-> w.occ, allowPush |-> allowPush,
     muts |-> w.muts, writes |-> w.writes, passes |-> w.passes, keys |-> w.keys,
     pre |-> w.pre, clean |-> TRUE, fresh |-> TRUE, data |-> NoData, gen |-> 0]

Note(op) ==
    [op |-> op, id |-> NoId, arg |-> NoId, occ |-> <<>>, allowPush |-> FALSE,
     muts |-> <<>>, writes |-> 0, passes |-> 0, keys |-> {}, pre |-> NoPre,
     clean |-> TRUE, fresh |-> TRUE, data |-> NoData, gen |-> 0]

\* ------------------------------------------------------------------- init
TaskLine(prefix, c, k, id) == prefix \o obsidianTaskStringify([id |-> id, content |-> c, checked |-> k])
NewTaskLine(c, k) == <<"-", IF k THEN "[x]" ELSE "[ ]", c>>

\* a second document of the vault; it holds the task that the first one holds
OtherDoc == <<TaskLine(<<>>, "b", FALSE, SeedId)>>

InitDocs ==
    { <<TaskLine(<<">", " ">>, "a", FALSE, SeedId)>>,
      <<NewTaskLine("a", FALSE)>>,
      <<TaskLine(<<>>, "a", FALSE, SeedId), TaskLine(<<>>, "b", FALSE, SeedId)>> }

Init ==
    /\ doc \in InitDocs
    /\ other = OtherDoc
    /\ otherEnabled = "unopened"
    /\ view \in {"source", "preview", "none"}
    /\ enabled = TRUE
    /\ reqOk = TRUE
    /\ cache = EmptyCache
    /\ queryData = [i \in RemoteIds |-> NoData]
    /\ liveObs = [i \in RemoteIds |-> 0]
    /\ remote = [i \in RemoteIds |-> IF i = SeedId THEN TaskData("a", FALSE) ELSE NoData]
    /\ inflight = EmptyBag
    /\ nextPid = 0
    /\ nextDur = 0
    /\ contentTimer = NoTimer
    /\ fileTimer = NoTimer
    /\ selfWriting = FALSE
    /\ selfTimers = <<>>
    /\ handlers = EmptyBag
    /\ created = [i \in ProvIds |-> 0]
    /\ pushedAt = [i \in RemoteIds |-> NoStamp]
    /\ carried = {}
    /\ want = [i \in RemoteIds |-> NoWant]
    /\ second = "none"
    /\ cursor = Home
    /\ retryer = NoRetryer
    /\ oauth = NoOauth
    /\ events = 0
    /\ last = Note("init")

\* a suspended asynchronous handler: where it waits, what it was called with,
\* the text it has read, and (history) whether the user has edited since
Handler(kind, id, data) ==
    [kind |-> kind, pc |-> "read", id |-> id, data |-> data, snap |-> <<>>, next |-> 0, dirty |-> FALSE]
FromFileHandler == Handler("fromFile", NoId, NoData)
Suspend(h) == handlers (+) SetToBag({h})
Resume(h) == handlers (-) SetToBag({h})
Dirtied == LET hs == BagToSet(handlers)
               mark(h) == [h EXCEPT !.dirty = TRUE]
           IN [g \in {mark(h) : h \in hs} |->
                 LET same == {h \in hs : mark(h) = g}
                     count(h) == handlers[h]
                 IN IF Cardinality(same) = 1 THEN count(CHOOSE h \in same : TRUE)
                    ELSE count(CHOOSE h \in same : h.dirty) + count(CHOOSE h \in same : ~h.dirty)]

\* ------------------------------------------------------------- user edits
TaskLines(d) ==
    {ln \in 1..Len(d) : /\ MatchesTask(d[ln])
                        /\ obsidianTaskParse(SubSeq(d[ln], PrefixLen(d[ln], 1) + 1, Len(d[ln]))).ok}

\* the documents one edit away from d: tick or untick a box, retype the text,
\* delete a line, type a new checklist line, paste a copy of a line
UserEdits(d) ==
    {[d EXCEPT ![ln][PrefixLen(d[ln], 1) + 2] = IF @ = "[x]" THEN "[ ]" ELSE "[x]"] : ln \in TaskLines(d)}
    \cup {[d EXCEPT ![ln][PrefixLen(d[ln], 1) + 3] = c] : ln \in TaskLines(d), c \in Contents}
    \cup {RemoveLine(d, ln) : ln \in 1..Len(d)}
    \cup (IF Len(d) < MaxLines
          THEN {Append(d, NewTaskLine("a", FALSE))} \cup {Append(d, d[ln]) : ln \in TaskLines(d)}
          ELSE {})

\* edits of the file from outside the editor: a box ticked in reading view,
\* a checklist line appended by another program
FileEdits(d) ==
    {[d EXCEPT ![ln][PrefixLen(d[ln], 1) + 2] = IF @ = "[x]" THEN "[ ]" ELSE "[x]"] : ln \in TaskLines(d)}
    \cup (IF Len(d) < MaxLines THEN {Append(d, NewTaskLine("a", FALSE))} ELSE {})

\* onload has run
Started == last.op # "init"

Budget == Started /\ events < MaxEvents /\ events' = events + 1 /\ UNCHANGED <<cursor, retryer, oauth>>

Input == Budget /\ UNCHANGED <<other, otherEnabled>>

\* history: a local edit ends the wait for a suppressed remote edit
LocalEdit(sec) == IF sec = "suppressed" THEN "none" ELSE sec

\* the user types in the editor; #onEditorChange (main.ts:631-645) restarts the timer
EditorEdit ==
    /\ Input
    /\ isEditingView(view)
    /\ \E d \in UserEdits(doc) \ {doc} : doc' = d
    /\ contentTimer' = Ticks(EDITOR_CHANGE_MS)
    /\ handlers' = Dirtied
    /\ second' = LocalEdit(second)
    /\ last' = Note("editorChange")
    /\ UNCHANGED <<view, enabled, reqOk, cache, queryData, liveObs, remote, inflight, nextPid,
                   nextDur, fileTimer, selfWriting, selfTimers, created, pushedAt, carried, want>>

\* #onVaultModify (main.ts:278-299) for the active file: the value of
\* #processFileChangeTimeout it leaves, given whether the path is in #selfWritingPaths
onVaultModify(selfWrite) ==
    IF enabled /\ reqOk /\ ~selfWrite THEN Ticks(FILE_CHANGE_MS) ELSE fileTimer

\* the file changes outside the editor (a box ticked in reading view, another
\* program); #onVaultModify (main.ts:278-299) starts the 250 ms timer
FileEdit ==
    /\ Input
    /\ ~isEditingView(view)
    /\ \E d \in FileEdits(doc) : doc' = d
    /\ fileTimer' = onVaultModify(selfWriting)
    /\ handlers' = Dirtied
    /\ second' = LocalEdit(second)
    /\ last' = Note("other")
    /\ UNCHANGED <<view, enabled, reqOk, cache, queryData, liveObs, remote, inflight, nextPid,
                   nextDur, contentTimer, selfWriting, selfTimers, created, pushedAt, carried, want>>

\* the callback of the editor-change timer (main.ts:638-644)
ContentTimerFire ==
    /\ UNCHANGED <<events, other, otherEnabled, cursor, retryer, oauth>>
    /\ contentTimer = 0
    /\ IF enabled /\ reqOk
       THEN LET w == handleContentUpdate([World EXCEPT !.ctimer = NoTimer])
            IN Commit(w) /\ last' = Last("editorTimer", NoId, NoId, w, TRUE)
       ELSE /\ contentTimer' = NoTimer
            /\ last' = Note("editorTimer")
            /\ UNCHANGED <<doc, cache, queryData, liveObs, inflight, created, pushedAt, carried, want, second, nextPid>>
    /\ UNCHANGED <<view, enabled, reqOk, remote, nextDur, fileTimer, selfWriting, selfTimers, handlers>>

\* #onLayoutChange (main.ts:616-629) with the view v in place
onLayoutChange(v, op) ==
    IF ~enabled' \/ ~reqOk
    THEN /\ last' = Note(op)
         /\ UNCHANGED <<doc, cache, queryData, liveObs, inflight, created, pushedAt, carried, want, second, nextPid, contentTimer, handlers>>
    ELSE IF isReadingView(v)
    THEN /\ BagCardinality(handlers) < MaxAsync
         /\ handlers' = Suspend(FromFileHandler)
         /\ last' = Note(op)
         /\ UNCHANGED <<doc, cache, queryData, liveObs, inflight, created, pushedAt, carried, want, second, nextPid, contentTimer>>
    ELSE LET w == handleContentUpdate([World EXCEPT !.view = v])
         IN Commit(w) /\ last' = Last(op, NoId, NoId, w, TRUE) /\ UNCHANGED handlers

\* onload (main.ts:130-190) ends with the first call of #onLayoutChange
onload ==
    /\ ~Started
    /\ UNCHANGED <<events, enabled, other, otherEnabled, cursor, retryer, oauth>>
    /\ onLayoutChange(view, "onload")
    /\ UNCHANGED <<view, reqOk, remote, nextDur, fileTimer, selfWriting, selfTimers>>

LayoutChange ==
    /\ Input
    /\ UNCHANGED enabled
    /\ onLayoutChange(view, "layoutChange")
    /\ UNCHANGED <<view, reqOk, remote, nextDur, fileTimer, selfWriting, selfTimers>>

\* what #pluginIsEnabled (main.ts:325-331) reads for a document with flag f; a
\* document never opened before may have its frontmatter either way
FlagRead(f) == IF f = "unopened" THEN BOOLEAN ELSE {f = "on"}

\* the user opens the other document in the active pane, while no file-path
\* handler, file-change timer or self-write of the old document is pending;
\* #onFileOpen (main.ts:610-614) clears the cache when the opened file is not
\* enabled or the requirements are not met
FileOpen ==
    /\ Budget
    /\ handlers = EmptyBag
    /\ fileTimer = NoTimer
    /\ ~selfWriting
    /\ selfTimers = <<>>
    /\ doc' = other
    /\ other' = doc
    /\ otherEnabled' = IF enabled THEN "on" ELSE "off"
    /\ \E flag \in FlagRead(otherEnabled) :
          LET w == IF ~reqOk \/ ~flag THEN clearActiveFileCache(World) ELSE World
          IN /\ enabled' = flag
             /\ cache' = w.cache
             /\ liveObs' = w.obs
             /\ carried' = DOMAIN w.cache
             /\ last' = Last("fileOpen", NoId, NoId, w, FALSE)
    /\ UNCHANGED <<view, reqOk, queryData, remote, inflight, nextPid, nextDur, contentTimer,
                   fileTimer, selfWriting, selfTimers, handlers, created, pushedAt, want, second>>

\* the user sets or unsets the access token or the project id in the settings;
\* the setters (main.ts:113-127) store the value and touch nothing else
SetRequirements ==
    /\ Input
    /\ reqOk' = ~reqOk
    /\ last' = Note("settings")
    /\ UNCHANGED <<doc, view, enabled, cache, queryData, liveObs, remote, inflight, nextPid, nextDur,
                   contentTimer, fileTimer, selfWriting, selfTimers, handlers, created, pushedAt,
                   carried, want, second>>

\* the command 'Resync current file with Todoist': #invalidateAll (main.ts:647-660).
\* With a live editor it invalidates the queries, whose refetches are the steps
\* Refetch; without one it starts #handleContentUpdateFromFile
Resync ==
    /\ Input
    /\ IF ~enabled \/ view # "none"
       THEN UNCHANGED handlers
       ELSE /\ BagCardinality(handlers) < MaxAsync
            /\ handlers' = Suspend(FromFileHandler)
    /\ last' = Note("resync")
    /\ UNCHANGED <<doc, view, enabled, reqOk, cache, queryData, liveObs, remote, inflight, nextPid,
                   nextDur, contentTimer, fileTimer, selfWriting, selfTimers, created, pushedAt,
                   carried, want, second>>

\* the user switches between editing view, reading view and a pane without editor
SwitchView ==
    /\ Input
    /\ \E v \in {"source", "preview", "none"} \ {view} :
          /\ view' = v
          /\ UNCHANGED enabled
          /\ onLayoutChange(v, "switchView")
    /\ UNCHANGED <<reqOk, remote, nextDur, fileTimer, selfWriting, selfTimers>>

\* #onEnableSync -> #toggleTodoistSync(file, true) (main.ts:333-353)
EnableSync ==
    /\ Input
    /\ ~enabled
    /\ enabled' = TRUE
    /\ onLayoutChange(view, "enableSync")
    /\ UNCHANGED <<view, reqOk, remote, nextDur, fileTimer, selfWriting, selfTimers>>

\* #onDisableSync -> #toggleTodoistSync(file, false) (main.ts:333-363)
DisableSync ==
    /\ Input
    /\ enabled
    /\ enabled' = FALSE
    /\ LET w == clearActiveFileCache(World)
       IN Commit(w) /\ last' = Last("disableSync", NoId, NoId, w, FALSE)
    /\ UNCHANGED <<view, reqOk, remote, nextDur, fileTimer, selfWriting, selfTimers, handlers>>

\* ------------------------------------------------------------ remote side
\* what a fetch of id returns: the task, or the deleted marker when the store
\* does not (or no longer) hold it
FetchResult(id) == IF remote[id].kind = "task" THEN remote[id] ELSE DeletedData

\* a second client edits or deletes a task in the remote store
RemoteEdit ==
    /\ Input
    /\ remote[SeedId].kind = "task"
    /\ \E v \in {[remote[SeedId] EXCEPT !.checked = ~@], DeletedData}
                \cup {[remote[SeedId] EXCEPT !.content = c] : c \in Contents} :
          /\ v # remote[SeedId]
          /\ remote' = [remote EXCEPT ![SeedId] = v]
    /\ want' = [want EXCEPT ![SeedId] = NoWant]
    /\ second' = "edited"
    /\ last' = Note("other")
    /\ UNCHANGED <<doc, view, enabled, reqOk, cache, queryData, liveObs, inflight, nextPid, nextDur,
                   contentTimer, fileTimer, selfWriting, selfTimers, handlers, created, pushedAt, carried>>

\* #deleteFromActiveFileCache (main.ts:452-462)
deleteFromActiveFileCache(w, id) == DeleteIds(w, {id} \cap DOMAIN w.cache)

\* a promotion that files a pending-creation entry under the durable id
addPendingEntry(w, id, task) ==
    [w EXCEPT !.cache = [i \in DOMAIN @ \cup {id} |-> IF i = id THEN ObsidianEntry ELSE @[i]]]

\* #addToActiveFileCache(id, #createTodoistCacheEntry(task)) (main.ts:448-450, 505-528)
addTodoistEntry(w, id, task) ==
    [w EXCEPT !.cache = [i \in DOMAIN @ \cup {id} |-> IF i = id THEN TodoistEntry ELSE @[i]],
              !.qd[id] = IF @.kind = "nodata" THEN TaskData(task.content, task.checked) ELSE @,
              !.obs[id] = @ + 1]

\* an echo guard whose comparison is turned around
recentLocalEditInverted(c, id) ==
    /\ id \in DOMAIN c
    /\ ~isObsidianCacheItem(c[id])
    /\ c[id].lastLocalEditAt # NoStamp
    /\ c[id].lastLocalEditAt * TickMs > RECENT_LOCAL_EDIT_MS

\* the echo guard of #onQueryUpdate (main.ts:734-744)
recentLocalEdit(c, id) ==
    /\ id \in DOMAIN c
    /\ ~isObsidianCacheItem(c[id])
    /\ c[id].lastLocalEditAt # NoStamp
    /\ c[id].lastLocalEditAt * TickMs < RECENT_LOCAL_EDIT_MS

\* indices of the occurrences of id, last line first
RECURSIVE RemoveOccurrences(_, _, _, _)
RemoveOccurrences(w, occ, k, id) ==
    IF k < 1 THEN w
    ELSE IF occ[k].task.id = id
    THEN LET ln == occ[k].lineNumber
             d == IF ln < Len(w.doc) THEN RemoveLine(w.doc, ln) ELSE [w.doc EXCEPT ![ln] = <<>>]
         IN RemoveOccurrences([w EXCEPT !.doc = d, !.ctimer = NoTimer, !.writes = @ + 1], occ, k - 1, id)
    ELSE RemoveOccurrences(w, occ, k - 1, id)

RECURSIVE ApplyChanges(_, _, _, _)
ApplyChanges(w, occ, k, task) ==
    IF k > Len(occ) THEN w
    ELSE IF occ[k].task.id = task.id /\ ~tasksEquals(occ[k].task, task)
    THEN ApplyChanges(replaceRange(w, occ[k].lineNumber, occ[k].from, occ[k].to,
                                   obsidianTaskStringify(task)), occ, k + 1, task)
    ELSE ApplyChanges(w, occ, k + 1, task)

\* the synchronous editor branch of #onQueryUpdate (main.ts:750-763, 770-771, 788-802)
queryUpdateEditor(w, id, data) ==
    IF data.kind = "deleted"
    THEN LET occ == parseContent(w.doc, w.pid)
         IN deleteFromActiveFileCache(RemoveOccurrences(w, occ, Len(occ), id), id)
    ELSE LET task == [id |-> id, content |-> data.content, checked |-> data.checked]
             occ == parseContent(w.doc, w.pid)
             w1 == ApplyChanges(w, occ, 1, task)
             occ2 == parseContent(w1.doc, w1.pid)
             w2 == [w1 EXCEPT !.pid = @ + NewCount(occ2), !.occ = OccTasks(occ2)]
         IN updateActiveFileCache(w2, occ2, FALSE)

\* history: the result of a fetch of id reaches #onQueryUpdate; echo: the echo
\* guard (main.ts:734-744) drops it
Delivered(sec, id, echo) ==
    IF id # SeedId THEN sec
    ELSE IF sec = "edited" /\ echo THEN "suppressed"
    ELSE IF sec = "suppressed" THEN sec
    ELSE "none"

QueryUpdateHandler(id, data) == Handler("queryUpdate", id, data)

\* a fetch of id brings a value that differs from the cached one, and the
\* observer hands the result to #onQueryUpdate (main.ts:722-803)
Refetch ==
    /\ UNCHANGED <<events, other, otherEnabled, cursor, retryer, oauth>>
    /\ \E id \in RemoteIds :
          /\ liveObs[id] > 0
          /\ FetchResult(id) # queryData[id]
          /\ LET data == FetchResult(id)
                 echo == enabled /\ reqOk /\ recentLocalEdit(cache, id)
                 w == [World EXCEPT !.qd[id] = data, !.second = Delivered(@, id, echo)]
                 inReadingView == view = "none" \/ isReadingView(view)
             IN IF ~enabled \/ ~reqOk \/ recentLocalEdit(cache, id)
                THEN Commit(w) /\ last' = [Last("queryUpdate", id, "ignored", w, FALSE) EXCEPT !.data = data]
                                /\ UNCHANGED handlers
                ELSE IF inReadingView
                THEN /\ BagCardinality(handlers) < MaxAsync
                     /\ handlers' = Suspend(QueryUpdateHandler(id, data))
                     /\ Commit(w) /\ last' = [Last("queryUpdate", id, "file", w, FALSE) EXCEPT !.data = data]
                ELSE LET w1 == queryUpdateEditor(w, id, data)
                     IN Commit(w1) /\ last' = [Last("queryUpdate", id, "editor", w1, FALSE) EXCEPT !.data = data]
                                    /\ UNCHANGED handlers
    /\ UNCHANGED <<view, enabled, reqOk, remote, nextDur, fileTimer, selfWriting, selfTimers>>

\* ----------------------------------------------------- mutation settlement
ReplaceToken(lines, old, new) ==
    [ln \in 1..Len(lines) |-> [j \in 1..Len(lines[ln]) |->
        IF lines[ln][j] = old THEN new ELSE lines[ln][j]]]

TokenCount(lines, tok) ==
    Cardinality(UNION {{<<ln, j>> : j \in {i \in 1..Len(lines[ln]) : lines[ln][i] = tok}} : ln \in 1..Len(lines)})

\* the then-callback of add.mutate (main.ts:541-569); task carries the durable id
createCompleted(w, id, task) ==
    IF ~enabled THEN w
    ELSE IF w.view = "none" THEN w
    ELSE IF TokenCount(w.doc, id) > 0
    THEN LET w1 == [w EXCEPT !.doc = ReplaceToken(@, id, task.id), !.ctimer = NoTimer,
                             !.writes = @ + TokenCount(w.doc, id)]
             w2 == addTodoistEntry(w1, task.id, task)
             w3 == handleContentUpdate(w2)
         IN deleteFromActiveFileCache(w3, id)
    ELSE deleteFromActiveFileCache(w, id)

\* the content-update or checked-toggle request of a mutation succeeds
UpdateSucceed ==
    /\ UNCHANGED <<events, other, otherEnabled, cursor, retryer, oauth>>
    /\ \E m \in BagToSet(inflight) :
          /\ m.kind # "create"
          /\ remote[m.id].kind = "task"
          /\ remote' = IF m.kind = "content" THEN [remote EXCEPT ![m.id].content = m.content]
                       ELSE [remote EXCEPT ![m.id].checked = m.checked]
          /\ inflight' = inflight (-) SetToBag({m})
          /\ second' = IF m.id = SeedId THEN "none" ELSE second
          /\ last' = Note("other")
    /\ UNCHANGED <<doc, view, enabled, reqOk, cache, queryData, liveObs, nextPid, nextDur,
                   contentTimer, fileTimer, selfWriting, selfTimers, handlers, created, pushedAt, carried, want>>

\* the create request succeeds: the store issues a durable id, onSuccess of
\* mutationAddTask seeds the query cache, and the then-callback runs
CreateSucceed ==
    /\ UNCHANGED <<events, other, otherEnabled, cursor, retryer, oauth>>
    /\ nextDur < MaxDur
    /\ \E m \in BagToSet(inflight) :
          LET task == [id |-> DurName[nextDur + 1], content |-> m.content, checked |-> FALSE]
              w0 == [World EXCEPT !.qd[task.id] = TaskData(task.content, task.checked)]
              w == createCompleted(w0, m.id, task)
          IN /\ m.kind = "create"
             /\ remote' = [remote EXCEPT ![task.id] = TaskData(task.content, task.checked)]
             /\ BagCardinality(inflight) - 1 + Len(w.muts) <= MaxInflight
             /\ w.pid <= MaxProv
             /\ doc' = w.doc
             /\ cache' = w.cache
             /\ queryData' = OnMutate(w.qd, w.muts, 1)
             /\ liveObs' = w.obs
             /\ inflight' = (inflight (-) SetToBag({m})) (+) SeqToBag(w.muts)
             /\ created' = CountCreates(created, w.muts, 1)
             /\ pushedAt' = Stamped(pushedAt, w.muts)
             /\ carried' = carried \cap DOMAIN w.cache
             /\ want' = Wanted(want, w.muts, 1)
             /\ second' = w.second
             /\ nextPid' = w.pid
             /\ contentTimer' = w.ctimer
             /\ last' = [Last("createSucceed", m.id, task.id, w, TRUE)
                            EXCEPT !.gen = m.gen, !.data = TaskData(m.content, m.checked)]
    /\ nextDur' = nextDur + 1
    /\ UNCHANGED <<view, enabled, reqOk, fileTimer, selfWriting, selfTimers, handlers>>

\* a mutation fails for good (its retries are used up)
MutationFail ==
    /\ Input
    /\ \E m \in BagToSet(inflight) :
          /\ inflight' = inflight (-) SetToBag({m})
          /\ want' = IF m.kind = "create" THEN want ELSE [want EXCEPT ![m.id] = NoWant]
          /\ last' = [Note("mutationFail") EXCEPT !.id = m.id, !.arg = m.kind, !.gen = m.gen]
    /\ UNCHANGED <<doc, view, enabled, reqOk, cache, queryData, liveObs, remote, nextPid, nextDur,
                   contentTimer, fileTimer, selfWriting, selfTimers, handlers, created, pushedAt, carried, second>>

\* ------------------------------------------------- asynchronous handlers
\* the 250 ms timer of #onVaultModify fires (main.ts:295-298)
FileTimerFire ==
    /\ UNCHANGED <<events, other, otherEnabled, cursor, retryer, oauth>>
    /\ fileTimer = 0
    /\ BagCardinality(handlers) < MaxAsync
    /\ fileTimer' = NoTimer
    /\ handlers' = Suspend(FromFileHandler)
    /\ last' = Note("fileTimer")
    /\ UNCHANGED <<doc, view, enabled, reqOk, cache, queryData, liveObs, remote, inflight, nextPid,
                   nextDur, contentTimer, selfWriting, selfTimers, created, pushedAt, carried, want, second>>

\* lines.splice for every occurrence of id, last line first (main.ts:702-711)
RECURSIVE SpliceOccurrences(_, _, _, _)
SpliceOccurrences(lines, occ, k, id) ==
    IF k < 1 THEN lines
    ELSE SpliceOccurrences(IF occ[k].task.id = id THEN RemoveLine(lines, occ[k].lineNumber) ELSE lines,
                           occ, k - 1, id)

\* a loop that writes the encoded task without the prefix of the line
RECURSIVE UpdateLinesNoPrefix(_, _, _, _)
UpdateLinesNoPrefix(lines, occ, k, task) ==
    IF k > Len(occ) THEN lines
    ELSE IF occ[k].task.id = task.id /\ ~tasksEquals(occ[k].task, task)
    THEN UpdateLinesNoPrefix([lines EXCEPT ![occ[k].lineNumber] = obsidianTaskStringify(task)],
                             occ, k + 1, task)
    ELSE UpdateLinesNoPrefix(lines, occ, k + 1, task)

\* the loop of #applyTaskUpdateToFile (main.ts:681-693)
RECURSIVE UpdateLines(_, _, _, _)
UpdateLines(lines, occ, k, task) ==
    IF k > Len(occ) THEN lines
    ELSE IF occ[k].task.id = task.id /\ ~tasksEquals(occ[k].task, task)
    THEN UpdateLines([lines EXCEPT ![occ[k].lineNumber] =
                          SubSeq(@, 1, occ[k].from) \o obsidianTaskStringify(task)],
                     occ, k + 1, task)
    ELSE UpdateLines(lines, occ, k + 1, task)

\* the text a handler that has read snap is going to write
LinesToWrite(h) ==
    LET occ == parseContent(h.snap, h.next)
    IN IF h.kind = "fromFile" THEN WriteNewIds(h.snap, occ, 1)
       ELSE IF h.data.kind = "deleted" THEN SpliceOccurrences(h.snap, occ, Len(occ), h.id)
       ELSE UpdateLines(h.snap, occ, 1,
                        [id |-> h.id, content |-> h.data.content, checked |-> h.data.checked])

\* vault.read of a suspended handler returns: #handleContentUpdateFromFile
\* (main.ts:473-502), #applyTaskUpdateToFile (673-697), #removeTaskFromFile (701-713)
HandlerRead ==
    /\ UNCHANGED <<events, other, otherEnabled, cursor, retryer, oauth>>
    /\ \E h \in BagToSet(handlers) :
          /\ h.pc = "read"
          /\ LET h1 == [h EXCEPT !.snap = doc, !.next = nextPid]
                 occ == parseContent(doc, nextPid)
                 changed == LinesToWrite(h1) # doc
             IN IF changed
                THEN \* #vaultModifySelf is entered: the path joins #selfWritingPaths
                     /\ nextPid + (IF h.kind = "fromFile" THEN NewCount(occ) ELSE 0) <= MaxProv
                     /\ nextPid' = nextPid + (IF h.kind = "fromFile" THEN NewCount(occ) ELSE 0)
                     /\ selfWriting' = TRUE
                     /\ handlers' = Resume(h) (+) SetToBag({[h1 EXCEPT !.pc = "write"]})
                     /\ last' = Last(h.kind, h.id, "read", World, FALSE)
                     /\ UNCHANGED <<doc, cache, queryData, liveObs, inflight, created, pushedAt, carried, want, second, contentTimer>>
                ELSE IF h.kind = "fromFile"
                THEN LET w == updateActiveFileCache([World EXCEPT !.occ = OccTasks(occ)], occ, FALSE)
                     IN /\ Commit(w)
                        /\ handlers' = Resume(h)
                        /\ last' = Last(h.kind, h.id, "done", w, FALSE)
                        /\ UNCHANGED selfWriting
                ELSE /\ handlers' = Resume(h) (+) SetToBag({[h1 EXCEPT !.pc = "refresh"]})
                     /\ last' = Last(h.kind, h.id, "read", World, FALSE)
                     /\ UNCHANGED <<doc, cache, queryData, liveObs, inflight, created, pushedAt, carried, want, second, nextPid,
                                    contentTimer, selfWriting>>
    /\ UNCHANGED <<view, enabled, reqOk, remote, nextDur, fileTimer, selfTimers>>

\* vault.modify of #vaultModifySelf (main.ts:301-309) lands: the file is
\* overwritten, the modify event reaches #onVaultModify, the 500 ms removal
\* is scheduled, and the handler goes on
HandlerWrite ==
    /\ UNCHANGED <<events, other, otherEnabled, cursor, retryer, oauth>>
    /\ \E h \in BagToSet(handlers) :
          /\ h.pc = "write"
          /\ fileTimer' = onVaultModify(selfWriting)
          /\ selfTimers' = Append(selfTimers, Ticks(SELF_WRITE_MS))
          /\ IF h.kind = "fromFile"
             THEN LET lines == LinesToWrite(h)
                      reparsed == parseContent(lines, nextPid)
                      w0 == [World EXCEPT !.doc = lines, !.writes = 1, !.occ = OccTasks(reparsed)]
                      w == updateActiveFileCache(w0, reparsed, TRUE)
                  IN /\ Commit(w)
                     /\ handlers' = Resume(h)
                     /\ last' = Last(h.kind, h.id, "done", w, TRUE)
             ELSE /\ doc' = LinesToWrite(h)
                  /\ handlers' = Resume(h) (+) SetToBag({[h EXCEPT !.pc = "refresh"]})
                  /\ last' = [Last(h.kind, h.id, "write", [World EXCEPT !.writes = 1], FALSE)
                                EXCEPT !.data = h.data, !.fresh = (h.snap = doc)]
                  /\ UNCHANGED <<cache, queryData, liveObs, inflight, created, pushedAt, carried, want, second, nextPid, contentTimer>>
    /\ UNCHANGED <<view, enabled, reqOk, remote, nextDur, selfWriting>>

\* vault.read of #refreshActiveCacheFromFile (main.ts:716-720) returns, and
\* #onQueryUpdate finishes (main.ts:767-771, 778-785)
HandlerRefresh ==
    /\ UNCHANGED <<events, other, otherEnabled, cursor, retryer, oauth>>
    /\ \E h \in BagToSet(handlers) :
          /\ h.pc = "refresh"
          /\ LET occ == parseContent(doc, nextPid)
                 w0 == [World EXCEPT !.pid = @ + NewCount(occ), !.occ = OccTasks(occ)]
                 w1 == updateActiveFileCache(w0, occ, FALSE)
                 w == IF h.data.kind = "deleted" THEN deleteFromActiveFileCache(w1, h.id) ELSE w1
             IN /\ Commit(w)
                /\ handlers' = Resume(h)
                /\ last' = [Last(h.kind, h.id, "done", w, FALSE) EXCEPT !.clean = ~h.dirty, !.data = h.data]
    /\ UNCHANGED <<view, enabled, reqOk, remote, nextDur, fileTimer, selfWriting, selfTimers>>

\* ------------------------------------------------------------------- time
Dec(t) == IF t > 0 THEN t - 1 ELSE t
AgedStamp(t) == IF t # NoStamp /\ t < EchoTicks THEN t + 1 ELSE t
Aged(e) == [e EXCEPT !.lastLocalEditAt = AgedStamp(@)]
Running(ts) == SelectSeq(ts, LAMBDA t : t > 1)

\* TickMs milliseconds pass; a removal from #selfWritingPaths that falls due runs
Tick ==
    /\ UNCHANGED <<events, other, otherEnabled, cursor, retryer, oauth>>
    /\ contentTimer' = Dec(contentTimer)
    /\ fileTimer' = Dec(fileTimer)
    /\ cache' = [i \in DOMAIN cache |-> Aged(cache[i])]
    /\ pushedAt' = [i \in DOMAIN pushedAt |-> AgedStamp(pushedAt[i])]
    /\ selfTimers' = [k \in 1..Len(Running(selfTimers)) |-> Running(selfTimers)[k] - 1]
    /\ selfWriting' = IF Len(Running(selfTimers)) < Len(selfTimers) THEN FALSE ELSE selfWriting
    /\ <<contentTimer', fileTimer', cache', selfTimers', pushedAt'>>
         # <<contentTimer, fileTimer, cache, selfTimers, pushedAt>>
    /\ last' = Note("other")
    /\ UNCHANGED <<doc, view, enabled, reqOk, queryData, liveObs, remote, inflight, nextPid, nextDur,
                   handlers, created, carried, want, second>>

Next ==
    \/ onload
    \/ EditorEdit
    \/ FileEdit
    \/ ContentTimerFire
    \/ LayoutChange
    \/ SwitchView
    \/ SetRequirements
    \/ Resync
    \/ FileOpen
    \/ EnableSync
    \/ DisableSync
    \/ RemoteEdit
    \/ Refetch
    \/ UpdateSucceed
    \/ CreateSucceed
    \/ MutationFail
    \/ FileTimerFire
    \/ HandlerRead
    \/ HandlerWrite
    \/ HandlerRefresh
    \/ Tick

Spec == Init /\ [][Next]_vars

\* ----------------------------------------------------- parseContent alone
\* lines a document is made of: fences (bare, indented, behind a quote
\* marker), checklist lines (new, tracked, indented, quoted, nested quotes),
\* a checklist line the decoder rejects, and lines that are no checklist lines
ParseLines ==
    { <<Fence>>,
      <<">", " ">> \o NewTaskLine("b", TRUE),
      <<" ", ">", ">", " ">> \o NewTaskLine("a", FALSE),
      TaskLine(<<">", " ">>, "a", FALSE, SeedId),
      <<" ", Fence, "text">>,
      <<">", " ", Fence>>,
      NewTaskLine("a", FALSE),
      TaskLine(<<" ", " ">>, "a", TRUE, ProvName[1]),
      TaskLine(<<">", " ", ">", " ">>, "b", FALSE, SeedId),
      <<">", " ", "-", "[?", "a">>,
      <<"-", "text">>,
      <<"1.", "text">>,
      <<"#", "text">>,
      <<"text">>,
      <<>> }

ParseDocs == UNION {[1..n -> ParseLines] : n \in 0..MaxParseLines}

ParseInit ==
    /\ doc \in ParseDocs
    /\ other = <<>>
    /\ otherEnabled = "unopened"
    /\ view = "source"
    /\ enabled = TRUE
    /\ reqOk = TRUE
    /\ cache = EmptyCache
    /\ queryData = [i \in RemoteIds |-> NoData]
    /\ liveObs = [i \in RemoteIds |-> 0]
    /\ remote = [i \in RemoteIds |-> NoData]
    /\ inflight = EmptyBag
    /\ nextPid = 0
    /\ nextDur = 0
    /\ contentTimer = NoTimer
    /\ fileTimer = NoTimer
    /\ selfWriting = FALSE
    /\ selfTimers = <<>>
    /\ handlers = EmptyBag
    /\ created = [i \in ProvIds |-> 0]
    /\ pushedAt = [i \in RemoteIds |-> NoStamp]
    /\ carried = {}
    /\ want = [i \in RemoteIds |-> NoWant]
    /\ second = "none"
    /\ cursor = Home
    /\ retryer = NoRetryer
    /\ oauth = NoOauth
    /\ events = 0
    /\ last = [op |-> "init"]

ParseFrame ==
    UNCHANGED <<other, otherEnabled, view, enabled, reqOk, cache, queryData, liveObs, remote,
                inflight, nextPid, nextDur, contentTimer, fileTimer, selfWriting, selfTimers,
                handlers, created, pushedAt, carried, want, second, cursor, retryer, oauth, events>>

\* parseContent(content) is called on the document
ParseDoc ==
    /\ last.op = "init"
    /\ last' = [op |-> "parse", result |-> parseContent(doc, 0), calls |-> DecoderCalls(doc, 1, FALSE)]
    /\ UNCHANGED doc
    /\ ParseFrame

\* the remote values a write-back may carry
ParseUpdates == {[id |-> SeedId, content |-> c, checked |-> k] : c \in Contents, k \in BOOLEAN}

Rewritten(path, kind, occ) ==
    [op |-> "rewrite", path |-> path, kind |-> kind, before |-> doc, occ |-> occ]

\* #handleContentUpdateFromFile (main.ts:476-494): ids written into the text read
WriteIdsToFile ==
    LET occ == parseContent(doc, 0)
    IN /\ last.op = "init"
       /\ doc' = WriteNewIds(doc, occ, 1)
       /\ doc' # doc
       /\ last' = Rewritten("file", "ids", occ)
       /\ ParseFrame

\* #handleContentUpdate (main.ts:594-606): ids written through #replaceRange
WriteIdsToEditor ==
    LET occ == parseContent(doc, 0)
    IN /\ last.op = "init"
       /\ doc' = ReplaceNew(World, occ, 1).doc
       /\ doc' # doc
       /\ last' = Rewritten("editor", "ids", occ)
       /\ ParseFrame

\* #applyTaskUpdateToFile (main.ts:673-696): a remote value written into the text read
WriteUpdateToFile ==
    \E task \in ParseUpdates :
        LET occ == parseContent(doc, 0)
        IN /\ last.op = "init"
           /\ doc' = UpdateLines(doc, occ, 1, task)
           /\ doc' # doc
           /\ last' = Rewritten("file", "update", occ)
           /\ ParseFrame

\* the editor branch of #onQueryUpdate (main.ts:788-799): a remote value
\* written through #replaceRange
WriteUpdateToEditor ==
    \E task \in ParseUpdates :
        LET occ == parseContent(doc, 0)
        IN /\ last.op = "init"
           /\ doc' = ApplyChanges(World, occ, 1, task).doc
           /\ doc' # doc
           /\ last' = Rewritten("editor", "update", occ)
           /\ ParseFrame

ParseNext ==
    \/ ParseDoc
    \/ WriteIdsToFile
    \/ WriteIdsToEditor
    \/ WriteUpdateToFile
    \/ WriteUpdateToEditor

ParseSpec == ParseInit /\ [][ParseNext]_vars

\* ----------------------------------------------------- #replaceRange alone
\* an editor of two lines, each a run of characters, with the cursor anywhere
Chars(n, c) == [k \in 1..n |-> c]

CursorDocs == {<<Chars(a, "c"), Chars(b, "c")>> : a, b \in 0..MaxCols}

Positions(lines) == {[line |-> l, ch |-> c] : l \in 1..Len(lines), c \in 0..MaxCols}

CursorInit ==
    /\ doc \in CursorDocs
    /\ cursor \in {pos \in Positions(doc) : pos.ch <= Len(doc[pos.line])}
    /\ other = <<>>
    /\ otherEnabled = "unopened"
    /\ view = "source"
    /\ enabled = TRUE
    /\ reqOk = TRUE
    /\ cache = EmptyCache
    /\ queryData = [i \in RemoteIds |-> NoData]
    /\ liveObs = [i \in RemoteIds |-> 0]
    /\ remote = [i \in RemoteIds |-> NoData]
    /\ inflight = EmptyBag
    /\ nextPid = 0
    /\ nextDur = 0
    /\ contentTimer \in {NoTimer, Ticks(EDITOR_CHANGE_MS)}
    /\ fileTimer = NoTimer
    /\ selfWriting = FALSE
    /\ selfTimers = <<>>
    /\ handlers = EmptyBag
    /\ created = [i \in ProvIds |-> 0]
    /\ pushedAt = [i \in RemoteIds |-> NoStamp]
    /\ carried = {}
    /\ want = [i \in RemoteIds |-> NoWant]
    /\ second = "none"
    /\ retryer = NoRetryer
    /\ oauth = NoOauth
    /\ events = 0
    /\ last = [op |-> "init"]

CursorFrame ==
    UNCHANGED <<other, otherEnabled, view, enabled, reqOk, cache, queryData, liveObs, remote,
                inflight, nextPid, nextDur, fileTimer, selfWriting, selfTimers,
                handlers, created, pushedAt, carried, want, second, retryer, oauth, events>>

\* a stand-in that takes the cursor to be on the edited line always
isOnAnyLine(cursorPos, from) == TRUE

\* main.ts:583
isOnEditedLine(cursorPos, from) == cursorPos.line = from.line

\* editor.replaceRange(text, from, to) (main.ts:585), from and to on one line,
\* n characters put in: where the editor may leave a cursor that was at pos.
\* A cursor before the span stays, one behind it moves with the text, one
\* inside the span or at its ends lands anywhere on the new text
Moved(pos, from, to, n) ==
    IF pos.line # from.line \/ pos.ch < from.ch THEN {pos}
    ELSE IF pos.ch > to.ch THEN {[pos EXCEPT !.ch = @ - (to.ch - from.ch) + n]}
    ELSE {[pos EXCEPT !.ch = c] : c \in from.ch..(from.ch + n)}

\* editor.setCursor(pos) (main.ts:588): a cursor cannot stand behind the end of
\* its line
setCursor(lines, pos) ==
    [pos EXCEPT !.ch = IF @ > Len(lines[pos.line]) THEN Len(lines[pos.line]) ELSE @]

\* #replaceRange(editor, text, from, to) (main.ts:576-592)
ReplaceRangeCall ==
    \E ln \in 1..Len(doc) : \E f \in 0..Len(doc[ln]) : \E t \in f..Len(doc[ln]) : \E n \in 0..MaxText :
        LET from == [line |-> ln, ch |-> f]
            to == [line |-> ln, ch |-> t]
            cursorPos == cursor
            lines == ReplaceSpan(doc, ln, f, t, Chars(n, "t"))
        IN /\ last.op = "init"
           /\ doc' = lines
           /\ \E moved \in Moved(cursorPos, from, to, n) :
                 cursor' = IF isOnEditedLine(cursorPos, from) THEN setCursor(lines, cursorPos) ELSE moved
           /\ contentTimer' = NoTimer
           /\ last' = [op |-> "replaceRange", cursorPos |-> cursorPos, from |-> from, to |-> to,
                        text |-> Chars(n, "t"), setCursor |-> isOnEditedLine(cursorPos, from)]
           /\ CursorFrame

CursorNext ==
    \/ ReplaceRangeCall

CursorSpec == CursorInit /\ [][CursorNext]_vars

\* --------------------------------------------------- transport retries
\* defaultOptions.mutations (create-query-client.ts:29-32): the retryer of the
\* query client runs mutationFn, and after a rejection runs it again while
\* fewer than `retry` attempts have failed, sleeping retryDelay(failureCount)
\* milliseconds first, failureCount being the failures before this one
retry == 3

retryDelay(attempt) == 1000 * 2 ^ attempt

\* a retryer that allows one retry more
shouldRetryOnceMore(failureCount) == failureCount <= retry

shouldRetry(failureCount) == failureCount < retry

\* the mutations the core issues: add.mutate, updateContent.mutate, toggleCheck.mutate
RetryMutations ==
    {Mutation("create", p, c, k) : p \in ProvIds, c \in Contents, k \in BOOLEAN}
    \cup {Mutation(kd, SeedId, c, k) : kd \in {"content", "check"}, c \in Contents, k \in BOOLEAN}

\* one mutation has just been issued and its first attempt is under way
RetryInit ==
    /\ \E m \in RetryMutations : inflight = SetToBag({m})
    /\ retryer = [NoRetryer EXCEPT !.status = "running", !.attempts = 1]
    /\ oauth = NoOauth
    /\ doc = <<TaskLine(<<>>, "a", FALSE, SeedId)>>
    /\ other = OtherDoc
    /\ otherEnabled = "unopened"
    /\ view = "source"
    /\ enabled = TRUE
    /\ reqOk = TRUE
    /\ cache = EmptyCache
    /\ queryData = [i \in RemoteIds |-> NoData]
    /\ liveObs = [i \in RemoteIds |-> 0]
    /\ remote = [i \in RemoteIds |-> IF i = SeedId THEN TaskData("a", FALSE) ELSE NoData]
    /\ nextPid = 0
    /\ nextDur = 0
    /\ contentTimer = NoTimer
    /\ fileTimer = NoTimer
    /\ selfWriting = FALSE
    /\ selfTimers = <<>>
    /\ handlers = EmptyBag
    /\ created = [i \in ProvIds |-> 0]
    /\ pushedAt = [i \in RemoteIds |-> NoStamp]
    /\ carried = {}
    /\ want = [i \in RemoteIds |-> NoWant]
    /\ second = "none"
    /\ cursor = Home
    /\ events = 0
    /\ last = Note("mutate")

RetryFrame ==
    UNCHANGED <<doc, other, otherEnabled, view, enabled, reqOk, cache, queryData, liveObs, remote,
                inflight, nextPid, nextDur, contentTimer, fileTimer, selfWriting, selfTimers,
                handlers, created, pushedAt, carried, want, second, cursor, oauth, events>>

\* mutationFn rejects: the retryer sleeps for another attempt, or gives up
RetryerAttemptFails ==
    /\ retryer.status = "running"
    /\ retryer' = IF shouldRetry(retryer.failureCount)
                  THEN [retryer EXCEPT !.status = "sleeping",
                                       !.failureCount = @ + 1,
                                       !.wait = retryDelay(retryer.failureCount),
                                       !.delays = Append(@, retryDelay(retryer.failureCount))]
                  ELSE [retryer EXCEPT !.status = "error"]
    /\ last' = Note("attemptFails")
    /\ RetryFrame

\* the shortest delay goes by while the retryer sleeps
RetryerSleep ==
    /\ retryer.status = "sleeping"
    /\ retryer.wait > 0
    /\ retryer' = [retryer EXCEPT !.wait = @ - retryDelay(0)]
    /\ last' = Note("sleep")
    /\ RetryFrame

\* the delay is over: mutationFn is run again
RetryerRun ==
    /\ retryer.status = "sleeping"
    /\ retryer.wait = 0
    /\ retryer' = [retryer EXCEPT !.status = "running", !.attempts = @ + 1, !.wait = NoTimer]
    /\ last' = Note("attempt")
    /\ RetryFrame

\* mutationFn resolves; what the core does then is CreateSucceed or UpdateSucceed
RetryerResolve ==
    /\ retryer.status = "running"
    /\ retryer' = [retryer EXCEPT !.status = "success"]
    /\ last' = Note("attemptSucceeds")
    /\ RetryFrame

\* the retryer has given up: the failure reaches the core
RetryerReject ==
    /\ retryer.status = "error"
    /\ MutationFail

RetryNext ==
    \/ RetryerAttemptFails
    \/ RetryerSleep
    \/ RetryerRun
    \/ RetryerResolve
    \/ RetryerReject

RetrySpec == RetryInit /\ [][RetryNext]_vars

\* ------------------------------------------------------- OAuth callback
MaxConnects == 2
MaxCallbacks == 3

\* getAuthStateParameter(): each connect draws a state no connect drew before
StateName == <<"s1", "s2", "s3", "s4">>

\* query parameters an obsidian://todoister-oauth link may carry
CallbackCodes == {Undefined, "c"}
CallbackStates == {Undefined, "", "sx"} \cup {StateName[k] : k \in 1..MaxConnects}
CallbackErrors == {Undefined, "e"}

\* the promise of connect k settles once, and its timer is cleared
\* (settings-tab.ts:138-145)
settle(o, k, how) ==
    [o EXCEPT !.timers[k] = FALSE,
              !.promise[k] = IF @ = "pending" THEN how ELSE @]

\* this.oauthCallbackRejector?.(error)
callRejector(o) ==
    IF o.rejector = NoAttempt THEN o
    ELSE [settle(o, o.rejector, "rejected") EXCEPT !.called = "rejector"]

\* this.oauthCallbackResolver?.(code)
callResolver(o) ==
    IF o.resolver = NoAttempt THEN o
    ELSE [settle(o, o.resolver, "resolved") EXCEPT !.called = "resolver"]

\* a handler that keeps oauthState after a mismatch
onOauthKeepState(o, code, state, error) ==
    IF Truthy(error) THEN callRejector(o)
    ELSE IF ~Truthy(code) THEN callRejector(o)
    ELSE IF ~Truthy(state) THEN callRejector(o)
    ELSE IF state # o.oauthState THEN callRejector(o)
    ELSE callResolver(o)

\* #onOauth({ code, state, error }) (main.ts:365-390)
onOauth(o, code, state, error) ==
    IF Truthy(error) THEN callRejector(o)
    ELSE IF ~Truthy(code) THEN callRejector(o)
    ELSE IF ~Truthy(state) THEN callRejector(o)
    ELSE IF state # o.oauthState
    THEN [callRejector(o) EXCEPT !.oauthState = Undefined,
                                 !.cleared = IF o.oauthState = Undefined THEN @ ELSE @ \cup {o.oauthState}]
    ELSE callResolver(o)

OauthInit ==
    /\ oauth = NoOauth
    /\ retryer = NoRetryer
    /\ doc = <<TaskLine(<<>>, "a", FALSE, SeedId)>>
    /\ other = OtherDoc
    /\ otherEnabled = "unopened"
    /\ view = "source"
    /\ enabled = TRUE
    /\ reqOk = FALSE
    /\ cache = EmptyCache
    /\ queryData = [i \in RemoteIds |-> NoData]
    /\ liveObs = [i \in RemoteIds |-> 0]
    /\ remote = [i \in RemoteIds |-> IF i = SeedId THEN TaskData("a", FALSE) ELSE NoData]
    /\ inflight = EmptyBag
    /\ nextPid = 0
    /\ nextDur = 0
    /\ contentTimer = NoTimer
    /\ fileTimer = NoTimer
    /\ selfWriting = FALSE
    /\ selfTimers = <<>>
    /\ handlers = EmptyBag
    /\ created = [i \in ProvIds |-> 0]
    /\ pushedAt = [i \in RemoteIds |-> NoStamp]
    /\ carried = {}
    /\ want = [i \in RemoteIds |-> NoWant]
    /\ second = "none"
    /\ cursor = Home
    /\ events = 0
    /\ last = [op |-> "init"]

OauthFrame ==
    UNCHANGED <<doc, other, otherEnabled, view, enabled, reqOk, cache, queryData, liveObs, remote,
                inflight, nextPid, nextDur, contentTimer, fileTimer, selfWriting, selfTimers,
                handlers, created, pushedAt, carried, want, second, cursor, retryer, events>>

\* #handleConnect up to its await (settings-tab.ts:125-151)
HandleConnect ==
    /\ Len(oauth.promise) < MaxConnects
    /\ Len(oauth.promise) < Len(StateName)
    /\ LET k == Len(oauth.promise) + 1
       IN /\ oauth' = [oauth EXCEPT !.oauthState = StateName[k],
                                    !.timers = Append(@, TRUE),
                                    !.promise = Append(@, "pending"),
                                    !.resolver = k,
                                    !.rejector = k,
                                    !.called = "none"]
          /\ last' = [op |-> "connect", state |-> StateName[k]]
    /\ OauthFrame

\* the protocol handler runs #onOauth with the parameters of the link
OauthCallback ==
    /\ oauth.callbacks < MaxCallbacks
    /\ \E code \in CallbackCodes, state \in CallbackStates, error \in CallbackErrors :
          /\ oauth' = [onOauth([oauth EXCEPT !.called = "none"], code, state, error)
                          EXCEPT !.callbacks = @ + 1]
          /\ last' = [op |-> "oauth", code |-> code, state |-> state, error |-> error]
    /\ OauthFrame

\* the 30 s timer of connect k fires (settings-tab.ts:131-135)
OauthTimeout ==
    /\ \E k \in 1..Len(oauth.timers) :
          /\ oauth.timers[k]
          /\ oauth' = callRejector([oauth EXCEPT !.timers[k] = FALSE, !.called = "none"])
          /\ last' = [op |-> "timeout", attempt |-> k]
    /\ OauthFrame

\* #handleConnect after its await (settings-tab.ts:153-161): the code is
\* exchanged for a token, or the catch block shows the failure
ConnectSettled ==
    /\ \E k \in 1..Len(oauth.promise) : \E ok \in BOOLEAN :
          /\ oauth.promise[k] \in {"resolved", "rejected"}
          /\ oauth' = [oauth EXCEPT !.promise[k] = IF @ = "resolved" /\ ok THEN "connected" ELSE "failed",
                                    !.called = "none"]
          /\ last' = [op |-> "settled", attempt |-> k]
    /\ OauthFrame

OauthNext ==
    \/ HandleConnect
    \/ OauthCallback
    \/ OauthTimeout
    \/ ConnectSettled

OauthSpec == OauthInit /\ [][OauthNext]_vars

\* ------------------------------------------------------------- properties
Range(q) == {q[k] : k \in 1..Len(q)}

\* the occurrences of the text d that carry id
Holding(d, id) ==
    LET occ == parseContent(d, 0)
    IN {occ[k] : k \in {j \in 1..Len(occ) : ~occ[j].isNew /\ occ[j].task.id = id}}

\* C1: a pushing reconcile pass that directly follows a pushing reconcile pass
\* with an identical occurrence list issues no mutation and writes nothing
C1_Idempotent ==
    [][(/\ last.passes > 0 /\ last.allowPush
        /\ last'.passes > 0 /\ last'.allowPush
        /\ last'.occ = last.occ)
       => (last'.muts = <<>> /\ last'.writes = 0)]_vars

\* C2: when #updateActiveFileCache returns, the keys of the cache are exactly
\* the ids of the occurrences it was called with
C2_KeysMatchParse ==
    last.passes > 0 => last.keys = {last.occ[k].id : k \in 1..Len(last.occ)}

\* a pass that kept a parsed id and tore down a tracked id absent from the parse
C2_Witness ==
    /\ last.op = "createSucceed"
    /\ last.passes > 0
    /\ last.arg \in last.keys
    /\ last.id \notin last.keys

Pushed(kind, t) == Mutation(kind, t.id, t.content, t.checked) \in Range(last.muts)

\* the occurrence t of the last pass, whose id had a remote-backed entry with a
\* task as cached remote value, got exactly the mutations its differences ask for
PushRule(t) ==
    (t.id \in last.pre.ids /\ last.pre.qd[t.id].kind = "task") =>
        /\ Pushed("check", t) <=> last.pre.qd[t.id].checked # t.checked
        /\ Pushed("content", t) <=> last.pre.qd[t.id].content # t.content

\* C3: in every reconcile pass a checked-toggle is issued iff the parsed
\* checked differs from the cached value, and a content-update iff the parsed
\* content differs
C3_LocalEditWins ==
    last.passes > 0 => \A k \in 1..Len(last.occ) : PushRule(last.occ[k])

\* what the code does keep of C3: the rule holds in the passes run with
\* allowPush = true; a pass run with allowPush = false issues no content-update
\* and no checked-toggle
C3_LocalEditWinsWhenPushing ==
    last.passes > 0 =>
        IF last.allowPush
        THEN \A k \in 1..Len(last.occ) : PushRule(last.occ[k])
        ELSE \A m \in Range(last.muts) : m.kind = "create"

\* a pushing pass in which both fields of one occurrence differed from the
\* cached value
C3_Witness ==
    /\ last.passes > 0
    /\ last.allowPush
    /\ \E k \in 1..Len(last.occ) :
          LET t == last.occ[k]
          IN /\ t.id \in last.pre.ids
             /\ last.pre.qd[t.id].kind = "task"
             /\ last.pre.qd[t.id].checked # t.checked
             /\ last.pre.qd[t.id].content # t.content
             /\ Pushed("check", t)
             /\ Pushed("content", t)

\* C4: when the create mutation for the provisional id P succeeds with the
\* durable id D on an enabled document that holds P, then afterwards the
\* document holds D wherever it held P, the cache has a remote-backed entry
\* for D and no entry for P
C4_Promotion ==
    [][(last'.op = "createSucceed" /\ enabled /\ TokenCount(doc, last'.id) > 0)
       => (/\ TokenCount(doc', last'.id) = 0
           /\ TokenCount(doc', last'.arg) = TokenCount(doc, last'.id)
           /\ last'.arg \in DOMAIN cache'
           /\ ~isObsidianCacheItem(cache'[last'.arg])
           /\ last'.id \notin DOMAIN cache')]_vars

\* C5: at most one create mutation is ever issued for a provisional id
C5_CreateOnce == \A p \in ProvIds : created[p] <= 1

\* C6: a remote value delivered to #onQueryUpdate for an id less than 2000 ms
\* after a pass pushed a local edit for that id changes neither the document
\* nor the cache and starts no file write
C6_EchoSuppressed ==
    [][(/\ last'.op = "queryUpdate"
        /\ last'.arg \in {"ignored", "file", "editor"}
        /\ pushedAt[last'.id] # NoStamp
        /\ pushedAt[last'.id] * TickMs < RECENT_LOCAL_EDIT_MS)
       => (doc' = doc /\ cache' = cache /\ handlers' = handlers)]_vars

\* C6 amended: the same, as long as the entry that was pushed is still in the
\* cache, where it carries lastLocalEditAt
C6_EchoSuppressedWhileTracked ==
    [][(/\ last'.op = "queryUpdate"
        /\ last'.arg \in {"ignored", "file", "editor"}
        /\ last'.id \in DOMAIN cache
        /\ ~isObsidianCacheItem(cache[last'.id])
        /\ cache[last'.id].lastLocalEditAt # NoStamp
        /\ cache[last'.id].lastLocalEditAt * TickMs < RECENT_LOCAL_EDIT_MS)
       => (doc' = doc /\ cache' = cache /\ handlers' = handlers)]_vars

\* a refetch inside the window reported a value that differs from the text of
\* the document, and was ignored
C6_Witness ==
    /\ last.op = "queryUpdate"
    /\ last.arg = "ignored"
    /\ enabled
    /\ last.id \in DOMAIN cache
    /\ cache[last.id].lastLocalEditAt = 0
    /\ pushedAt[last.id] = 0
    /\ last.data.kind = "task"
    /\ \E o \in Holding(doc, last.id) : ~tasksEquals(o.task, last.data)

\* C7: when #onQueryUpdate has handled the deleted marker for an id, no user
\* edit having landed meanwhile, the document holds no occurrence of the id
\* and the cache has no entry for it
C7_DeletionPropagates ==
    (/\ last.op = "queryUpdate"
     /\ last.arg \in {"editor", "done"}
     /\ last.data.kind = "deleted"
     /\ last.clean)
    => (Holding(doc, last.id) = {} /\ last.id \notin DOMAIN cache)

\* C8: when #onQueryUpdate has handled the remote value V for an id, no user
\* edit having landed meanwhile, every occurrence of the id in the document
\* has the content and the checked state of V
C8_RemoteValueApplied ==
    (/\ last.op = "queryUpdate"
     /\ last.arg \in {"editor", "done"}
     /\ last.data.kind = "task"
     /\ last.clean)
    => \A o \in Holding(doc, last.id) : tasksEquals(o.task, last.data)

\* d2 is d with the span of every occurrence of id that differs from V
\* replaced by the encoded V, and nothing else changed
Frame(d, d2, id, V) ==
    LET occ == parseContent(d, 0)
        hit(ln) == {k \in 1..Len(occ) : /\ occ[k].lineNumber = ln
                                        /\ ~occ[k].isNew
                                        /\ occ[k].task.id = id
                                        /\ ~tasksEquals(occ[k].task, V)}
    IN /\ Len(d2) = Len(d)
       /\ \A ln \in 1..Len(d) :
             IF hit(ln) = {} THEN d2[ln] = d[ln]
             ELSE d2[ln] = SubSeq(d[ln], 1, PrefixLen(d[ln], 1))
                           \o obsidianTaskStringify([id |-> id, content |-> V.content, checked |-> V.checked])

\* C9 as stated: a write-back changes, of the document as it is at the moment
\* of the write, only the spans of the occurrences of the id that differ from
\* the remote value
C9_WriteBackFrame ==
    [][(last'.op = "queryUpdate" /\ last'.arg \in {"editor", "write"} /\ last'.data.kind = "task")
       => Frame(doc, doc', last'.id, last'.data)]_vars

\* C9 amended: the same, in the file path only when the document is still the
\* text the handler read
C9_WriteBackFrameWhenFresh ==
    [][(/\ last'.op = "queryUpdate"
        /\ last'.arg \in {"editor", "write"}
        /\ last'.data.kind = "task"
        /\ last'.fresh)
       => Frame(doc, doc', last'.id, last'.data)]_vars

\* a file write-back landed on the text it was computed from and rewrote an
\* occurrence that stands behind a quote prefix
C9_Witness ==
    /\ last.op = "queryUpdate"
    /\ last.arg = "write"
    /\ last.fresh
    /\ last.data.kind = "task"
    /\ \E o \in Holding(doc, last.id) : o.from > 0 /\ tasksEquals(o.task, last.data)

\* C10: while sync is off the cache is empty, no query observer is live, and
\* the plugin writes nothing to the document
C10_Teardown ==
    [][~enabled' => (/\ last'.writes = 0
                     /\ DOMAIN cache' = {}
                     /\ \A i \in RemoteIds : liveObs'[i] = 0)]_vars

\* C11: once a reconcile pass has run after the active document changed, no
\* cache entry from before the change is left, and no #onQueryUpdate of such
\* an entry writes to the new document
C11_NoLeak ==
    [][/\ (last'.passes > 0 => carried' = {})
       /\ ((last'.op = "queryUpdate" /\ last'.id \in carried) => last'.writes = 0)]_vars

\* the pending entry of id that issued the create number gen is in the cache
IssuerLives(id, gen) ==
    /\ id \in DOMAIN cache
    /\ isObsidianCacheItem(cache[id])
    /\ created[id] = gen

\* C12: the completion callback of a create mutation changes the document and
\* the cache only if the entry that issued the mutation is still in the cache
C12_DefensiveCompletion ==
    [][(last'.op = "createSucceed" /\ ~IssuerLives(last'.id, last'.gen))
          => (doc' = doc /\ cache' = cache)]_vars

\* the number of suspended runs of #handleContentUpdateFromFile
FromFileSuspended(hs) ==
    LET fs == {h \in BagToSet(hs) : h.kind = "fromFile"}
    IN BagCardinality([h \in fs |-> hs[h]])

\* C13: at most one asynchronous pass of #handleContentUpdateFromFile is
\* suspended at a time, and while one is suspended no other handler runs a
\* reconcile pass: the only pass is the one that handler itself finishes with
C13_NoReentrance ==
    [][/\ FromFileSuspended(handlers') <= 1
       /\ (last'.passes > 0 /\ FromFileSuspended(handlers) > 0) => last'.op = "fromFile"]_vars

\* the handler recorded in l has run #handleContentUpdate
RanContentUpdate(l) == l.passes > 0 /\ l.allowPush /\ l.op # "fromFile"

\* C14: every editor-change event restarts the 1000 ms timer; the callback of
\* the timer runs only when the 1000 ms since the last event have passed and
\* leaves no timer pending; and a pending timer ends in no other way than by
\* its callback (or a run of #handleContentUpdate that took its place), so
\* that a burst of events is followed by exactly one run
C14_Debounce ==
    [][/\ (last'.op = "editorChange" => contentTimer' = Ticks(EDITOR_CHANGE_MS))
       /\ (last'.op = "editorTimer" => (contentTimer = 0 /\ contentTimer' = NoTimer))
       /\ ((contentTimer # NoTimer /\ contentTimer' = NoTimer)
              => (last'.op = "editorTimer" \/ RanContentUpdate(last')))]_vars

\* C15: when the create mutation of a pending-creation entry fails for good,
\* that entry is removed from the cache (so that the next pass creates a fresh
\* entry and issues a new create)
C15_CreateFailure ==
    [][(last'.op = "mutationFail" /\ last'.arg = "create" /\ IssuerLives(last'.id, last'.gen))
          => last'.id \notin DOMAIN cache']_vars

\* C16: when a content-update or checked-toggle mutation of a remote-backed
\* entry fails for good, the entry is torn down: its subscription is
\* destroyed and it is deleted from the cache
C16_UpdateFailure ==
    [][(/\ last'.op = "mutationFail"
        /\ last'.arg \in {"content", "check"}
        /\ last'.id \in DOMAIN cache
        /\ ~isObsidianCacheItem(cache[last'.id]))
          => (last'.id \notin DOMAIN cache' /\ liveObs'[last'.id] = liveObs[last'.id] - 1)]_vars

\* no mutation of id is in flight
Settled(id) == \A m \in BagToSet(inflight) : m.id # id

\* C17: once every mutation issued for a task has succeeded, in whatever
\* order, and nothing else has touched the task (no failed mutation, no edit
\* by a second client), the remote store holds the content and checked that
\* were pushed last
C17_ConvergesToLatest ==
    \A id \in RemoteIds :
        (Settled(id) /\ remote[id].kind = "task")
            => /\ want[id].content # "none" => remote[id].content = want[id].content
               /\ want[id].checked # "none" => remote[id].checked = (want[id].checked = "yes")

\* nothing of the plugin is pending: only a new input can change the document
Quiet ==
    /\ inflight = EmptyBag
    /\ handlers = EmptyBag
    /\ contentTimer = NoTimer
    /\ fileTimer = NoTimer
    /\ \A id \in RemoteIds : liveObs[id] > 0 => FetchResult(id) = queryData[id]

\* C18: an edit of a tracked task by a second client that reached
\* #onQueryUpdate inside the echo-suppression window is in the document once
\* the window has expired and everything the plugin had pending has run,
\* provided no local edit was made in between
C18_SuppressedNotLost ==
    (/\ second = "suppressed"
     /\ Quiet
     /\ enabled /\ reqOk
     /\ SeedId \in DOMAIN cache
     /\ ~recentLocalEdit(cache, SeedId))
        => IF remote[SeedId].kind = "task"
           THEN \A o \in Holding(doc, SeedId) : tasksEquals(o.task, remote[SeedId])
           ELSE Holding(doc, SeedId) = {}

\* the durable ids the pass recorded in l met without a cache entry, and the
\* first occurrence of such an id
FirstSeen(l) ==
    {l.occ[k].id : k \in {j \in 1..Len(l.occ) : ~isObsidianId(l.occ[j].id) /\ l.occ[j].id \notin l.pre.ids}}

FirstOccurrence(l, id) ==
    l.occ[CHOOSE k \in 1..Len(l.occ) : l.occ[k].id = id /\ \A j \in 1..(k - 1) : l.occ[j].id # id]

\* C19: a pass that meets a durable id without a cache entry leaves a
\* remote-backed entry for it, subscribed and seeded with the parsed content
\* and checked of the occurrence, and issues no content-update or
\* checked-toggle mutation for that id
C19_FirstSight ==
    [][last'.passes > 0 =>
          \A id \in FirstSeen(last') :
              /\ id \in last'.keys
              /\ liveObs'[id] > 0 \/ id \notin DOMAIN cache'
              /\ \A m \in Range(last'.muts) : m.id # id
              /\ tasksEquals(queryData'[id], FirstOccurrence(last', id))]_vars

\* the lines of d that carry a provisional id, with that id
ProvAt(d) ==
    LET occ == parseContent(d, 0)
    IN {<<occ[k].lineNumber, occ[k].task.id>> :
          k \in {j \in 1..Len(occ) : ~occ[j].isNew /\ isObsidianId(occ[j].task.id)}}

\* the three parts of C20, on one step
C20_WrittenBack ==
    \A m \in Range(last'.muts) : m.kind = "create" => TokenCount(doc', m.id) > 0

C20_NoNewLeft ==
    RanContentUpdate(last') => NewCount(parseContent(doc', nextPid')) = 0

C20_StableId ==
    (last'.writes > 0 /\ Len(doc') = Len(doc))
        => \A p \in ProvAt(doc), q \in ProvAt(doc') : p[1] = q[1] => p[2] = q[2]

\* C20: the provisional id of every create a pass issues is in the document
\* when the pass ends; after a run of #handleContentUpdate no line parses as
\* new; and a write of the plugin never replaces the provisional id of a line
\* by another provisional id
C20_NewTaskWriteBack ==
    [][C20_WrittenBack /\ C20_NoNewLeft /\ C20_StableId]_vars

\* C21: when the create of a provisional task that was checked when the create
\* was issued succeeds, and the sync-enabled document still holds the id on a
\* checked line, a checked-toggle mutation with checked = true is issued for
\* the durable id
C21_CheckedAtCreation ==
    [][(/\ last'.op = "createSucceed"
        /\ last'.data.checked
        /\ enabled
        /\ \E o \in Holding(doc, last'.id) : o.task.checked)
          => \E m \in Range(last'.muts) : m.kind = "check" /\ m.id = last'.arg /\ m.checked]_vars

\* what the code keeps of C21: the same, when a live editor exists at the
\* moment the create succeeds
C21_CheckedAtCreationInEditor ==
    [][(/\ last'.op = "createSucceed"
        /\ last'.data.checked
        /\ enabled
        /\ view # "none"
        /\ \E o \in Holding(doc, last'.id) : o.task.checked)
          => \E m \in Range(last'.muts) : m.kind = "check" /\ m.id = last'.arg /\ m.checked]_vars

\* the trimmed text of the line starts with the fence marker
StartsFence(line) == \E i \in 1..Len(line) : line[i] = Fence /\ \A j \in 1..(i - 1) : line[j] = " "

\* the number of fence lines before line i of d
FencesBefore(d, i) == Cardinality({j \in 1..(i - 1) : StartsFence(d[j])})

\* line i of d is no fence line and has an even number of fence lines before it
Unfenced(d, i) == ~StartsFence(d[i]) /\ FencesBefore(d, i) % 2 = 0

\* C22: a line is handed to the decoder, and yields an occurrence, only if it
\* is no fence line and the number of fence lines before it is even
C22_FenceExclusion ==
    last.op = "parse" =>
        /\ \A k \in 1..Len(last.calls) : Unfenced(doc, last.calls[k].line)
        /\ \A k \in 1..Len(last.result) : Unfenced(doc, last.result[k].lineNumber)

\* a parsed document with an indented fence line, a checklist line inside the
\* fence that gave nothing, and a checklist line that gave an occurrence
C22_Witness ==
    /\ last.op = "parse"
    /\ \E i \in 1..Len(doc) : StartsFence(doc[i]) /\ doc[i][1] # Fence
    /\ \E i \in 1..Len(doc) : /\ obsidianTaskParse(doc[i]).ok
                                 /\ FencesBefore(doc, i) % 2 = 1
                                 /\ \A k \in 1..Len(last.result) : last.result[k].lineNumber # i
    /\ Len(last.result) > 0

\* the checklist pattern: p tokens of whitespace and quote markers, then a
\* bullet, then an opening bracket with something behind it
Checklist(line, p) ==
    /\ p + 2 <= Len(line)
    /\ \A j \in 1..p : line[j] \in {" ", ">"}
    /\ line[p + 1] \in {"-", "*", "+"}
    /\ line[p + 2] \in {"[ ]", "[x]", "[?"}

\* the call of the decoder made for line i, if any
CallsFor(i) == {k \in 1..Len(last.calls) : last.calls[k].line = i}

\* C23: for every unfenced line that matches the checklist pattern the
\* decoder gets the line without its whitespace and quote-marker prefix,
\* starting at the bullet; an occurrence has from = the length of that prefix
\* and to = the length of the line, so prefix + decoded string is the line
C23_PrefixAndSpan ==
    last.op = "parse" =>
        /\ \A i \in 1..Len(doc) : \A p \in 0..Len(doc[i]) :
              (Unfenced(doc, i) /\ Checklist(doc[i], p))
                 => \E k \in CallsFor(i) : last.calls[k].arg = SubSeq(doc[i], p + 1, Len(doc[i]))
        /\ \A k \in 1..Len(last.result) :
              LET o == last.result[k]
                  line == doc[o.lineNumber]
              IN /\ Checklist(line, o.from)
                 /\ o.to = Len(line)
                 /\ \E c \in CallsFor(o.lineNumber) :
                       SubSeq(line, 1, o.from) \o last.calls[c].arg = line

\* a parsed document with an occurrence behind two quote markers and one
\* behind plain indentation
C23_Witness ==
    /\ last.op = "parse"
    /\ \E k \in 1..Len(last.result) :
          LET o == last.result[k]
          IN Cardinality({j \in 1..o.from : doc[o.lineNumber][j] = ">"}) = 2
    /\ \E k \in 1..Len(last.result) :
          LET o == last.result[k]
          IN o.from > 0 /\ \A j \in 1..o.from : doc[o.lineNumber][j] = " "

\* the number of quote markers among the first n tokens of a line
Markers(line, n) == Cardinality({j \in 1..n : line[j] = ">"})

\* the occurrences of last.occ whose line the rewrite changed
RewrittenOcc == {k \in 1..Len(last.occ) : doc[last.occ[k].lineNumber] # last.before[last.occ[k].lineNumber]}

\* C24: a rewrite of an occurrence (ids written back, or a remote value
\* written into the text), in the editor path and in the file path, leaves
\* the part of the line before the occurrence's from as it was: the same
\* indentation and the same N quote markers
C24_PrefixPreserved ==
    last.op = "rewrite" =>
        /\ Len(doc) = Len(last.before)
        /\ \A k \in 1..Len(last.occ) :
              LET o == last.occ[k]
                  old == last.before[o.lineNumber]
                  new == doc[o.lineNumber]
              IN /\ Len(new) >= o.from
                 /\ SubSeq(new, 1, o.from) = SubSeq(old, 1, o.from)
                 /\ PrefixLen(new, 1) = o.from
                 /\ Markers(new, PrefixLen(new, 1)) = Markers(old, o.from)

\* a rewrite of the given kind in the given path changed a line whose
\* occurrence stands behind n quote markers
C24_Rewrote(path, kind, n) ==
    /\ last.op = "rewrite" /\ last.path = path /\ last.kind = kind
    /\ \E k \in RewrittenOcc :
          Markers(last.before[last.occ[k].lineNumber], last.occ[k].from) = n

\* an id write-back in the file path rewrote, in one document, occurrences
\* behind no, one and two quote markers
C24_Witness ==
    /\ C24_Rewrote("file", "ids", 0)
    /\ C24_Rewrote("file", "ids", 1)
    /\ C24_Rewrote("file", "ids", 2)

\* the lines of the document that are not fenced and match the checklist pattern
ChecklistLines == {i \in 1..Len(doc) : Unfenced(doc, i) /\ \E p \in 0..Len(doc[i]) : Checklist(doc[i], p)}

\* C25: the decoder is called exactly once for each unfenced line that
\* matches the checklist pattern, in document order, and for no other line;
\* the occurrences have strictly increasing line numbers
C25_OrderAndSelectivity ==
    last.op = "parse" =>
        /\ \A j, k \in 1..Len(last.calls) : j < k => last.calls[j].line < last.calls[k].line
        /\ {last.calls[k].line : k \in 1..Len(last.calls)} = ChecklistLines
        /\ \A j, k \in 1..Len(last.result) : j < k => last.result[j].lineNumber < last.result[k].lineNumber

\* a parsed document with two checklist lines, each decoded, around a line
\* that is a list item without a checkbox
C25_Witness ==
    /\ last.op = "parse"
    /\ Len(doc) = 3
    /\ ChecklistLines = {1, 3}
    /\ doc[2] = <<"-", "text">>
    /\ Len(last.calls) = 2
    /\ Len(last.result) = 2

\* the calls of the decoder that returned no result
FailedCalls == {k \in 1..Len(last.calls) : ~obsidianTaskParse(last.calls[k].arg).ok}

\* C26: a line that matches the checklist pattern and that the decoder
\* rejects yields no occurrence and changes nothing else: the result is the
\* one the same document gives with that line replaced by plain text, so the
\* fence flag is as before and the lines after it are parsed
C26_FailureSkipped ==
    last.op = "parse" =>
        /\ \A k \in FailedCalls :
              /\ \A j \in 1..Len(last.result) : last.result[j].lineNumber # last.calls[k].line
              /\ last.result = parseContent([doc EXCEPT ![last.calls[k].line] = <<"text">>], 0)
        /\ {last.result[j].lineNumber : j \in 1..Len(last.result)}
             = {last.calls[k].line : k \in 1..Len(last.calls) \ FailedCalls}

\* a parsed document in which a rejected line stands between two lines that
\* yield occurrences
C26_Witness ==
    /\ last.op = "parse"
    /\ \E k \in FailedCalls :
          /\ \E j \in 1..Len(last.result) : last.result[j].lineNumber < last.calls[k].line
          /\ \E j \in 1..Len(last.result) : last.result[j].lineNumber > last.calls[k].line

\* the mutation of the given kind that the step just taken issued for t
PushedNow(kind, t) == Mutation(kind, t.id, t.content, t.checked) \in Range(last'.muts)

\* C27: the reconcile pass that the file-change timer starts (the timer has
\* just fired, its handler is the only one pending, and it reads the file
\* and finishes) issues a checked-toggle for every tracked remote-backed task
\* whose checked state in the file differs from the cached remote value, and
\* a content-update for every one whose content differs
C27_FileChangePushes ==
    [][(/\ last.op = "fileTimer"
        /\ BagCardinality(handlers) = 1
        /\ last'.op = "fromFile"
        /\ last'.arg = "done")
       => \A k \in 1..Len(last'.occ) :
             LET t == last'.occ[k]
             IN (t.id \in last'.pre.ids /\ last'.pre.qd[t.id].kind = "task") =>
                   /\ last'.pre.qd[t.id].checked # t.checked => PushedNow("check", t)
                   /\ last'.pre.qd[t.id].content # t.content => PushedNow("content", t)]_vars

\* the ids that have a remote-backed entry in the cache
RemoteBacked(c) == {i \in DOMAIN c : ~isObsidianCacheItem(c[i])}

\* C28: in every reachable state each remote-backed entry of the cache has
\* exactly one live query observer and no other id has one
C28_ObserversMatchCache ==
    \A i \in RemoteIds : liveObs[i] = IF i \in RemoteBacked(cache) THEN 1 ELSE 0

\* a pass has just removed the remote-backed entry of the seed task, whose
\* observer is gone with it, while the entry of a promoted task is in the
\* cache with its observer
C28_Witness ==
    /\ last.passes > 0
    /\ SeedId \in last.pre.ids
    /\ SeedId \notin DOMAIN cache
    /\ liveObs[SeedId] = 0
    /\ \E i \in DurIds : i \in RemoteBacked(cache) /\ liveObs[i] = 1

C30_ReadingViewNeverPushes ==
    [][(/\ ~isEditingView(view)
        /\ last'.op \in {"fromFile", "queryUpdate"}
        /\ last'.passes > 0)
       => \A m \in Range(last'.muts) : m.kind = "create"]_vars

\* what the code keeps of C30: the same for the passes that write no id back
C30_NoPushWithoutWriteBack ==
    [][(/\ ~isEditingView(view)
        /\ last'.op \in {"fromFile", "queryUpdate"}
        /\ last'.passes > 0
        /\ last'.writes = 0)
       => \A m \in Range(last'.muts) : m.kind = "create"]_vars

\* the step just taken issued a content-update or a checked-toggle for id
PushedFor(id) == \E m \in Range(last'.muts) : m.id = id /\ m.kind \in {"content", "check"}

\* C31: a handler that runs reconcile passes sets lastLocalEditAt of an entry
\* to the present iff it issues a content-update or checked-toggle for that
\* entry, and leaves it alone otherwise; passes run with allowPush = false
\* issue none; and the echo guard drops a remote value only if a pass pushed
\* a local edit for that id less than 2000 ms before
C31_StampOnlyOnPush ==
    [][/\ last'.passes > 0 =>
            /\ \A i \in RemoteBacked(cache) \cap RemoteBacked(cache') :
                  /\ PushedFor(i) => cache'[i].lastLocalEditAt = 0
                  /\ ~PushedFor(i) => cache'[i].lastLocalEditAt = cache[i].lastLocalEditAt
            /\ ~last'.allowPush => \A i \in RemoteIds : ~PushedFor(i)
       /\ (last'.op = "queryUpdate" /\ last'.arg = "ignored" /\ enabled /\ reqOk) =>
            /\ pushedAt[last'.id] # NoStamp
            /\ pushedAt[last'.id] * TickMs < RECENT_LOCAL_EDIT_MS]_vars

\* a pushing pass has stamped the entry it pushed for and has left the entry
\* of another task, which equals its cached value, without a stamp
C31_Witness ==
    /\ last.passes > 0
    /\ last.allowPush
    /\ \E i, j \in RemoteBacked(cache) :
          /\ i # j
          /\ \E m \in Range(last.muts) : m.id = i /\ m.kind \in {"content", "check"}
          /\ cache[i].lastLocalEditAt = 0
          /\ \A m \in Range(last.muts) : m.id # j
          /\ cache[j].lastLocalEditAt = NoStamp

\* every entry of the cache c has the variant that goes with the kind of its key
VariantMatchesId(c) == \A i \in DOMAIN c : isObsidianCacheItem(c[i]) <=> isObsidianId(i)

\* C32: before and after every step the entries keyed by a provisional id
\* are pending-creation and the entries keyed by a durable id are
\* remote-backed; no step turns the entry of an id from remote-backed into
\* pending-creation, and the promotion of a task removes the pending entry
\* of its provisional id when it adds the remote-backed entry of its durable id
C32_VariantMatchesIdKind ==
    [][/\ VariantMatchesId(cache)
       /\ VariantMatchesId(cache')
       /\ \A i \in DOMAIN cache \cap DOMAIN cache' :
             ~isObsidianCacheItem(cache[i]) => ~isObsidianCacheItem(cache'[i])
       /\ (last'.op = "createSucceed" /\ last'.arg \in DOMAIN cache' /\ last'.arg \notin DOMAIN cache)
             => last'.id \notin DOMAIN cache']_vars

\* a create has just been completed: the durable id has a remote-backed entry,
\* the provisional id it replaces has none, and another provisional id is
\* still pending
C32_Witness ==
    /\ last.op = "createSucceed"
    /\ last.arg \in RemoteBacked(cache)
    /\ last.id \notin DOMAIN cache
    /\ \E p \in ProvIds : p \in DOMAIN cache /\ isObsidianCacheItem(cache[p])

\* the step just taken is the landing of a self-write (its removal from
\* #selfWritingPaths has been scheduled)
SelfWriteLanded == Len(selfTimers') = Len(selfTimers) + 1

\* C33: the modify event of a self-write, and a modify event that arrives
\* while a self-write is in progress or less than 500 ms after one completed,
\* does not schedule #handleContentUpdateFromFile, also when self-writes overlap
C33_SelfWriteGuard ==
    [][/\ SelfWriteLanded => fileTimer' = fileTimer
       /\ (last'.op = "other" /\ doc' # doc /\ (selfTimers # <<>> \/ \E h \in BagToSet(handlers) : h.pc = "write"))
             => fileTimer' = fileTimer]_vars

\* C34: a step taken while the access token or the project id is unset
\* issues no create, content-update or checked-toggle and adds no entry to
\* the cache, whatever the entry point
C34_RequirementsGate ==
    [][(~reqOk /\ ~reqOk') => (last'.muts = <<>> /\ DOMAIN cache' \subseteq DOMAIN cache)]_vars

\* an editor-change event of the enabled document in editing view waits for
\* its run: the timer it started is pending
EditWaits == contentTimer # NoTimer /\ enabled /\ reqOk /\ isEditingView(view)

\* C35: an edit that waits for its run stops waiting only through a run of
\* #handleContentUpdate on the text that holds the edit; a write of the
\* plugin through #replaceRange does not end the wait without such a run
C35_EditNotLost ==
    [][(/\ EditWaits
        /\ enabled' /\ reqOk' /\ isEditingView(view')
        /\ contentTimer' = NoTimer)
       => (last'.passes > 0 /\ last'.allowPush /\ last'.op \in {"editorTimer", "layoutChange", "createSucceed"})]_vars

\* C36: when the file-change timer fires on a document that is no longer
\* sync-enabled, the handler it starts (the timer has just fired, its handler
\* is the only one pending and takes its first step) adds nothing to the
\* cache and does not set out to write ids into the file
C36_TimerTargetsEnabledDocument ==
    [][(/\ last.op = "fileTimer"
        /\ BagCardinality(handlers) = 1
        /\ last'.op = "fromFile"
        /\ ~enabled)
       => (/\ DOMAIN cache' \subseteq DOMAIN cache
           /\ last'.muts = <<>>
           /\ \A h \in BagToSet(handlers') : h.pc # "write")]_vars

\* C37: a reconcile pass issues no mutation and sets no lastLocalEditAt for a
\* remote-backed entry whose cached remote value is absent or is the deleted
\* marker, whatever the parsed occurrence holds, and the entry is still in the
\* cache when the pass returns as long as its id is in the parse
ParsedIds(l) == {l.occ[k].id : k \in 1..Len(l.occ)}
Blocked(i) ==
    /\ i \in last'.pre.ids
    /\ last'.pre.qd[i].kind # "task"
    /\ i \in ParsedIds(last')
C37_DeletedOrMissingBlocksPush ==
    [][last'.passes > 0 =>
          \A i \in RemoteIds :
              Blocked(i) => /\ \A m \in Range(last'.muts) : m.id # i
                            /\ i \in last'.keys
                            /\ pushedAt'[i] = pushedAt[i]
                            /\ (i \in DOMAIN cache /\ i \in DOMAIN cache')
                                  => cache'[i].lastLocalEditAt = cache[i].lastLocalEditAt]_vars
\* a pushing pass has met an entry whose cached remote value is the deleted
\* marker while the document still holds its line, and another task was pushed
C37_Witness ==
    /\ last.passes > 0
    /\ last.allowPush
    /\ \E i \in last.pre.ids :
          /\ last.pre.qd[i].kind = "deleted"
          /\ i \in ParsedIds(last)
          /\ i \in DOMAIN cache
          /\ \A m \in Range(last.muts) : m.id # i

\* C38: a failing create/update/toggle mutation is attempted at most 4 times
\* (1 attempt and 3 retries), the k-th retry follows a delay of 1000 * 2^(k-1)
\* ms that has gone by in full, the terminal failure is reported after the 4th
\* attempt and not before, and the core issues no mutation when it is reported
C38_BoundedRetry ==
    [][/\ retryer'.attempts <= 4
       /\ retryer'.attempts > retryer.attempts =>
             /\ retryer'.attempts = retryer.attempts + 1
             /\ retryer.wait = 0
             /\ Len(retryer.delays) = retryer.attempts
       /\ \A k \in 1..Len(retryer'.delays) : retryer'.delays[k] = 1000 * 2 ^ (k - 1)
       /\ retryer'.status = "error" => retryer'.attempts = 4 /\ retryer'.delays = <<1000, 2000, 4000>>
       /\ last'.op = "mutationFail" =>
             /\ last'.muts = <<>>
             /\ BagCardinality(inflight') = BagCardinality(inflight) - 1
             /\ inflight' \sqsubseteq inflight
             /\ cache' = cache]_vars
\* the fourth attempt has failed after delays of 1000, 2000 and 4000 ms and the
\* failure has reached the core, which has nothing in flight
C38_Witness ==
    /\ retryer.status = "error"
    /\ retryer.attempts = 4
    /\ retryer.delays = <<1000, 2000, 4000>>
    /\ last.op = "mutationFail"
    /\ inflight = EmptyBag

\* C39: #onOauth invokes oauthCallbackResolver only when the callback carries
\* no error, carries code and state, and state equals the stored oauthState;
\* in every other case it does not invoke the resolver and invokes the
\* rejector if one is set; on a state mismatch it also clears oauthState, and
\* no later callback is resolved with a state that a mismatch has cleared
Accepted(l, o) ==
    /\ ~Truthy(l.error)
    /\ Truthy(l.code)
    /\ Truthy(l.state)
    /\ l.state = o.oauthState
Mismatch(l, o) ==
    /\ ~Truthy(l.error)
    /\ Truthy(l.code)
    /\ Truthy(l.state)
    /\ l.state # o.oauthState
C39_OauthCallbackCheck ==
    [][last'.op = "oauth" =>
          /\ oauth'.called = "resolver" => Accepted(last', oauth)
          /\ ~Accepted(last', oauth) =>
                /\ oauth'.called # "resolver"
                /\ oauth.rejector # NoAttempt => oauth'.called = "rejector"
          /\ Mismatch(last', oauth) => oauth'.oauthState = Undefined
          /\ oauth'.called = "resolver" => last'.state \notin oauth.cleared]_vars
\* a callback with the pending state has been resolved after an earlier
\* mismatch had cleared the state of the connect before
C39_Witness ==
    /\ last.op = "oauth"
    /\ oauth.called = "resolver"
    /\ oauth.cleared # {}
    /\ last.state = oauth.oauthState

====
